---- MODULE Spec2Model ----
(***************************************************************************)
(* A model of bpRNAStructure: the .st file loader (StructureCreator), the  *)
(* Structure aggregate with its Component Array, and neighbour resolution. *)
(*                                                                         *)
(* Representation of Python values:                                        *)
(*   str            a sequence of one-character strings, '' is << >>       *)
(*   None (str)     the one-element sequence <<"None">>                    *)
(*   tuple / list   a sequence                                             *)
(*   dict           a sequence of [k, v] entries in insertion order        *)
(*   int or None    [none |-> TRUE] or [none |-> FALSE, v |-> n]           *)
(*   an exception   a non-empty err field naming the exception type        *)
(***************************************************************************)
EXTENDS Integers, Sequences, FiniteSets, TLC

VARIABLES
    fileLines,      \* the lines of the file on disk, without their '\n'
    fileNL,         \* whether the last line of the file ends with '\n'
    pos,            \* number of lines the header loop "for line in f" has read
    flags,          \* sequenceRead, dotBracketRead, structureArrayRead, varnaRead
    features,       \* the body lines, bound once the header loop breaks
    i,              \* the cursor of "while i < len(features)"
    new_structure,  \* the Structure aggregate under construction
    pc,             \* "header", "body", "done" or "failed"
    err,            \* the exception that ended create(), "" if none
    doc,            \* the description the file was written from
    calls,          \* the calls made on an aggregate driven through its methods
    result,         \* what the last query on that aggregate returned
    params          \* the parameter tables the energy functions read

vars ==
    <<fileLines, fileNL, pos, flags, features, i, new_structure, pc, err, doc,
      calls, result, params>>

-----------------------------------------------------------------------------
(* Python built-ins on str, character by character *)

None == <<"None">>
EOM == <<"E", "O", "M">>

Digits == {"0", "1", "2", "3", "4", "5", "6", "7", "8", "9"}

Letters ==
    {"A", "B", "C", "D", "E", "F", "G", "H", "I", "J", "K", "L", "M", "N", "O",
     "P", "Q", "R", "S", "T", "U", "V", "W", "X", "Y", "Z",
     "a", "b", "c", "d", "e", "f", "g", "h", "i", "j", "k", "l", "m", "n", "o",
     "p", "q", "r", "s", "t", "u", "v", "w", "x", "y", "z"}

Whitespace == {" ", "\t", "\n", "\r", "\f"}

isdigit(c) == c \in Digits

isalpha(c) == c \in Letters

DigitVal(c) ==
    CASE c = "0" -> 0 [] c = "1" -> 1 [] c = "2" -> 2 [] c = "3" -> 3
      [] c = "4" -> 4 [] c = "5" -> 5 [] c = "6" -> 6 [] c = "7" -> 7
      [] c = "8" -> 8 [] c = "9" -> 9

\* s[a:b] with 0 <= a, Python slice semantics (clamped to the string)
Slice(s, a, b) ==
    LET hi == IF b > Len(s) THEN Len(s) ELSE b
    IN  IF a >= hi THEN << >> ELSE SubSeq(s, a + 1, hi)

RECURSIVE lstrip(_, _)
lstrip(s, chars) ==
    IF s # << >> /\ Head(s) \in chars THEN lstrip(Tail(s), chars) ELSE s

RECURSIVE rstrip(_, _)
rstrip(s, chars) ==
    IF s # << >> /\ s[Len(s)] \in chars
    THEN rstrip(SubSeq(s, 1, Len(s) - 1), chars)
    ELSE s

\* str.strip() and str.strip(chars)
strip(s, chars) == rstrip(lstrip(s, chars), chars)

\* the first position from p on at which sep occurs in s, 0 if there is none
find(s, sep, p) ==
    LET at == {k \in p..(Len(s) - Len(sep) + 1) : SubSeq(s, k, k + Len(sep) - 1) = sep}
    IN  IF at = {} THEN 0 ELSE CHOOSE k \in at : \A m \in at : k <= m

\* str.split(sep) for a non-empty sep: the pieces between the occurrences of
\* sep found from left to right; empty pieces are kept
RECURSIVE splitFrom(_, _, _)
splitFrom(s, sep, p) ==
    LET k == find(s, sep, p)
    IN  IF k = 0 THEN <<SubSeq(s, p, Len(s))>>
        ELSE <<SubSeq(s, p, k - 1)>> \o splitFrom(s, sep, k + Len(sep))

split(s, sep) == splitFrom(s, sep, 1)

RECURSIVE DigitsVal(_, _)
DigitsVal(s, acc) ==
    IF s = << >> THEN acc ELSE DigitsVal(Tail(s), 10 * acc + DigitVal(Head(s)))

\* int(s): surrounding whitespace and one sign are allowed, then digits only;
\* anything else raises ValueError
int(s) ==
    LET t == strip(s, Whitespace)
        signed == t # << >> /\ Head(t) \in {"+", "-"}
        d == IF signed THEN Tail(t) ELSE t
    IN  IF d # << >> /\ \A k \in 1..Len(d) : isdigit(d[k])
        THEN [err |-> "",
              v |-> IF signed /\ Head(t) = "-" THEN 0 - DigitsVal(d, 0)
                    ELSE DigitsVal(d, 0)]
        ELSE [err |-> "ValueError", v |-> 0]

\* [int(num) for num in parts]: the first failing conversion raises
RECURSIVE ints(_)
ints(parts) ==
    IF parts = << >> THEN [err |-> "", v |-> << >>]
    ELSE LET h == int(Head(parts))
             t == ints(Tail(parts))
         IN  IF h.err # "" THEN [err |-> h.err, v |-> << >>]
             ELSE IF t.err # "" THEN t
             ELSE [err |-> "", v |-> <<h.v>> \o t.v]

-----------------------------------------------------------------------------
(* StructureCreator: grammar primitives *)

\* "45..68" -> (45, 68); any number of ".."-separated parts is returned
split_feature_index_string(index_string) ==
    ints(split(strip(index_string, Whitespace), <<".", ".">>))

\* split_closing_pair_index_string were the two indices returned in
\* ascending order
split_closing_pair_index_sorted(index_string) ==
    LET r == ints(split(strip(strip(index_string, {"("}), {")"}), <<",">>))
    IN  IF r.err = "" /\ Len(r.v) = 2 /\ r.v[1] > r.v[2]
        THEN [err |-> "", v |-> <<r.v[2], r.v[1]>>]
        ELSE r

\* "(45,68)" -> (45, 68)
split_closing_pair_index_string(index_string) ==
    ints(split(strip(strip(index_string, {"("}), {")"}), <<",">>))

\* "A:G" -> ('A', 'G')
split_closing_pair_base_string(base_string) ==
    split(strip(base_string, Whitespace), <<":">>)

\* get_feature_sequence were only upper-case characters kept
feature_sequence_upper(feature_data) ==
    SelectSeq(feature_data, LAMBDA c : isalpha(c) /\ c \notin
        {"a", "b", "c", "d", "e", "f", "g", "h", "i", "j", "k", "l", "m", "n",
         "o", "p", "q", "r", "s", "t", "u", "v", "w", "x", "y", "z"})

\* the alphabetic characters of the token, in order
get_feature_sequence(feature_data) ==
    SelectSeq(feature_data, isalpha)

\* the characters before the first '.'
get_loop_parent_label(feature_data) ==
    Head(split(feature_data, <<".">>))

\* feature_string[0] == 'S' and feature_string[1].isdigit()
is_stem(feature_string) ==
    IF Len(feature_string) = 0 THEN [err |-> "IndexError", v |-> FALSE]
    ELSE IF feature_string[1] # "S" THEN [err |-> "", v |-> FALSE]
    ELSE IF Len(feature_string) = 1 THEN [err |-> "IndexError", v |-> FALSE]
    ELSE [err |-> "", v |-> isdigit(feature_string[2])]

\* re.search('I\d{1,3}.1', line): 'I', one to three digits, any character
\* but a newline, then '1', anywhere in the line
MatchesAt(line, p) ==
    \E n \in 1..3 :
        /\ p + n + 2 <= Len(line)
        /\ line[p] = "I"
        /\ \A k \in 1..n : isdigit(line[p + k])
        /\ line[p + n + 2] = "1"

re_search_internal_loop(line) ==
    \E p \in 1..Len(line) : MatchesAt(line, p)

\* file_line.strip().split(" ")
Fields(file_line) == split(strip(file_line, Whitespace), <<" ">>)

\* data[k], 0-indexed, and the exception of reading past the list
At(data, k) == IF k < Len(data) THEN data[k + 1] ELSE << >>

AtErr(data, k) == IF k < Len(data) THEN "" ELSE "IndexError"

\* the first exception raised by steps evaluated in program order
RECURSIVE FirstErr(_)
FirstErr(errs) ==
    IF errs = << >> THEN ""
    ELSE IF Head(errs) # "" THEN Head(errs)
    ELSE FirstErr(Tail(errs))

\* the exception of "a, b = parsed": the parse's own, else a wrong arity
Unpack2Err(parsed) ==
    IF parsed.err # "" THEN parsed.err
    ELSE IF Len(parsed.v) # 2 THEN "ValueError"
    ELSE ""

\* the exception of parsing data[k] with a splitter that converts integers
IntsErr(data, k, parsed) == FirstErr(<<AtErr(data, k), parsed.err>>)

\* the exception of parsing data[k] and unpacking it into two names
Unpack2At(data, k, parsed) == FirstErr(<<AtErr(data, k), Unpack2Err(parsed)>>)

\* the exception of x[0], x[1] on a tuple
Index01Err(x) == IF Len(x) < 2 THEN "IndexError" ELSE ""

reverse(s) == [k \in 1..Len(s) |-> s[Len(s) + 1 - k]]

\* list(zip(list(a), list(b[::-1])))
zip_reversed(a, b) ==
    LET n == IF Len(a) < Len(b) THEN Len(a) ELSE Len(b)
        r == reverse(b)
    IN  [k \in 1..n |-> <<a[k], r[k]>>]

-----------------------------------------------------------------------------
(* Component records, as their constructors build them *)

Stem(label, sequence5p, sequence3p, sequence5pSpan, sequence3pSpan) ==
    [label |-> label,
     sequence5p |-> sequence5p,
     sequence3p |-> sequence3p,
     sequence |-> zip_reversed(sequence5p, sequence3p),
     sequenceLen |-> (Len(sequence5p) + Len(sequence3p)) \div 2,
     sequence5pSpan |-> sequence5pSpan,
     sequence3pSpan |-> sequence3pSpan,
     neighbor5p |-> << << >>, << >> >>,
     neighbor3p |-> << << >>, << >> >>,
     adjacentBulges |-> <<FALSE, FALSE>>]

Hairpin(label, sequence, sequenceSpan, closingPair, closingPairSpan) ==
    [label |-> label,
     sequence |-> sequence,
     sequenceLen |-> Len(sequence),
     span |-> sequenceSpan,
     closingPair |-> closingPair,
     closingPairSpan |-> closingPairSpan,
     pk |-> None,
     neighbors |-> << << >>, << >> >>]

Bulge(label, sequence, sequenceSpan, closingPair5p, closingPair5pSpan, closingPair3p, closingPair3pSpan) ==
    [label |-> label,
     sequence |-> sequence,
     sequenceLen |-> Len(sequence),
     span |-> sequenceSpan,
     closingPair5p |-> closingPair5p,
     closingPair5pSpan |-> closingPair5pSpan,
     closingPair3p |-> closingPair3p,
     closingPair3pSpan |-> closingPair3pSpan,
     pk |-> None,
     neighbor5p |-> None,
     neighbor3p |-> None]

\* The neighbour slots of an InternalLoop hold a tuple of integers or a tuple
\* of labels; the field name of the slot's record tells which.
InternalLoop(pLabel, label5p, label3p, loop5p, loop3p, loop5pSpan, loop3pSpan, closingPairs, closingPairsSpan, neighbor5p) ==
    [parentLabel |-> pLabel,
     label5p |-> label5p,
     label3p |-> label3p,
     loop5p |-> loop5p,
     loop3p |-> loop3p,
     loopsLen |-> <<Len(loop5p), Len(loop3p)>>,
     span5p |-> loop5pSpan,
     span3p |-> loop3pSpan,
     closingPairs |-> closingPairs,
     closingPairsSpan |-> closingPairsSpan,
     neighbor5p |-> [ints |-> neighbor5p],
     neighbor3p |-> [ints |-> neighbor5p],
     strict |-> TRUE]

ExternalLoop(label, seq, seqSpan, closingPair5p, closingPair5pSpan, closingPair3p, closingPair3pSpan) ==
    [label |-> label,
     sequence |-> seq,
     sequenceLen |-> Len(seq),
     span |-> seqSpan,
     closingPair5p |-> closingPair5p,
     closingPair5pSpan |-> closingPair5pSpan,
     closingPair3p |-> closingPair3p,
     closingPair3pSpan |-> closingPair3pSpan,
     neighbor5p |-> None,
     neighbor3p |-> None]

End(label, sequence, span) ==
    [label |-> label,
     sequence |-> sequence,
     sequenceLen |-> Len(sequence),
     span |-> span,
     neighbor |-> None]

NCBP(label, basePair, basePairSpan, loc) ==
    [label |-> label,
     basePair |-> basePair,
     basePairSpan |-> basePairSpan,
     parentUnit |-> loc]

-----------------------------------------------------------------------------
(* dict: entries in insertion order; d[k] = v replaces in place or appends *)

DictHas(d, k) == \E n \in 1..Len(d) : d[n].k = k

DictGet(d, k) == d[CHOOSE n \in 1..Len(d) : d[n].k = k].v

DictSet(d, k, v) ==
    IF DictHas(d, k)
    THEN [n \in 1..Len(d) |-> IF d[n].k = k THEN [k |-> k, v |-> v] ELSE d[n]]
    ELSE Append(d, [k |-> k, v |-> v])

DictKeys(d) == [n \in 1..Len(d) |-> d[n].k]

\* the dict a loop of d[keys[n]] = vals[n] assignments builds
RECURSIVE DictFrom(_, _, _)
DictFrom(d, keys, vals) ==
    IF keys = << >> THEN d
    ELSE DictFrom(DictSet(d, Head(keys), Head(vals)), Tail(keys), Tail(vals))

Multiloop(parentLabel, subunitLabels, sequences, spans, closingPairs, closingPairsSpan) ==
    [parentLabel |-> parentLabel,
     subunitLabels |-> subunitLabels,
     numSubunits |-> Len(sequences),
     sequences |-> sequences,
     spans |-> spans,
     closingPairs |-> closingPairs,
     closingPairsSpan |-> closingPairsSpan]

-----------------------------------------------------------------------------
(* StructureCreator: one constructor per record kind.  Each returns the     *)
(* record, or the first exception in program order.                         *)

NoRecord == [label |-> << >>]

\* no query has returned yet
NoResult == [op |-> ""]

Built(e, rec) == IF e # "" THEN [err |-> e, rec |-> NoRecord]
                 ELSE [err |-> "", rec |-> rec]

_create_stem_from_file_line(file_line) ==
    LET stem_data == Fields(file_line)
        part5p == split_feature_index_string(At(stem_data, 1))
        part3p == split_feature_index_string(At(stem_data, 3))
        e == FirstErr(<<Unpack2At(stem_data, 1, part5p), AtErr(stem_data, 2),
                        Unpack2At(stem_data, 3, part3p), AtErr(stem_data, 4)>>)
    IN  Built(e, Stem(At(stem_data, 0),
                      get_feature_sequence(At(stem_data, 2)),
                      get_feature_sequence(At(stem_data, 4)),
                      part5p.v, part3p.v))

_create_hairpin_from_file_line(file_line) ==
    LET hairpinData == Fields(file_line)
        hairpin_indices == split_feature_index_string(At(hairpinData, 1))
        close_index == split_closing_pair_index_string(At(hairpinData, 3))
        close_base == split_closing_pair_base_string(At(hairpinData, 4))
        e == FirstErr(<<IntsErr(hairpinData, 1, hairpin_indices),
                        AtErr(hairpinData, 2),
                        Unpack2At(hairpinData, 3, close_index),
                        AtErr(hairpinData, 4),
                        IF Len(close_base) # 2 THEN "ValueError" ELSE "">>)
    IN  Built(e, Hairpin(At(hairpinData, 0),
                         get_feature_sequence(At(hairpinData, 2)),
                         hairpin_indices.v, close_base, close_index.v))

abs(n) == IF n < 0 THEN 0 - n ELSE n

_create_bulge_from_file_line(file_line) ==
    LET bulgeData == Fields(file_line)
        bulge_span == split_feature_index_string(At(bulgeData, 1))
        precedingIndex == split_closing_pair_index_string(At(bulgeData, 3))
        precedingBase == split_closing_pair_base_string(At(bulgeData, 4))
        trailingIndex == split_closing_pair_index_string(At(bulgeData, 5))
        trailingBase == split_closing_pair_base_string(At(bulgeData, 6))
        e == FirstErr(<<Unpack2At(bulgeData, 1, bulge_span),
                        AtErr(bulgeData, 2),
                        Unpack2At(bulgeData, 3, precedingIndex),
                        AtErr(bulgeData, 4),
                        IF Len(precedingBase) # 2 THEN "ValueError" ELSE "",
                        Unpack2At(bulgeData, 5, trailingIndex),
                        AtErr(bulgeData, 6),
                        IF Len(trailingBase) # 2 THEN "ValueError" ELSE "">>)
        bulge_stop == bulge_span.v[2]
        swap == abs(bulge_stop - trailingIndex.v[1])
                    > abs(bulge_stop - trailingIndex.v[2])
        trailingBasePair ==
            IF swap THEN <<trailingBase[2], trailingBase[1]>>
            ELSE <<trailingBase[1], trailingBase[2]>>
        \* the swapped branch stores the 5' base where the 5' index belongs
        trailingBasePairIndex ==
            IF swap THEN <<trailingIndex.v[2], trailingBase[1]>>
            ELSE <<trailingIndex.v[1], trailingIndex.v[2]>>
    IN  IF e # "" THEN Built(e, NoRecord)
        ELSE Built("", Bulge(At(bulgeData, 0),
                             get_feature_sequence(At(bulgeData, 2)),
                             bulge_span.v, precedingBase, precedingIndex.v,
                             trailingBasePair, trailingBasePairIndex))

_create_internal_loop_from_file_line(loop_1_file_line, loop_2_file_line) ==
    LET loop1Data == Fields(loop_1_file_line)
        loop2Data == Fields(loop_2_file_line)
        loop_1_indices == split_feature_index_string(At(loop1Data, 1))
        loop_2_indices == split_feature_index_string(At(loop2Data, 1))
        cp_indices_1 == split_closing_pair_index_string(At(loop1Data, 3))
        cp_indices_2 == split_closing_pair_index_string(At(loop2Data, 3))
        loop_1_closing_pair == split_closing_pair_base_string(At(loop1Data, 4))
        loop_2_closing_pair == split_closing_pair_base_string(At(loop2Data, 4))
        e == FirstErr(<<IntsErr(loop1Data, 1, loop_1_indices),
                        IntsErr(loop2Data, 1, loop_2_indices),
                        AtErr(loop1Data, 2), AtErr(loop2Data, 2),
                        IntsErr(loop1Data, 3, cp_indices_1),
                        IntsErr(loop2Data, 3, cp_indices_2),
                        AtErr(loop1Data, 4), AtErr(loop2Data, 4),
                        Index01Err(loop_1_closing_pair),
                        Index01Err(loop_2_closing_pair)>>)
    IN  IF e # "" THEN Built(e, NoRecord)
        ELSE Built("", InternalLoop(
                 get_loop_parent_label(At(loop1Data, 0)), <<"1">>, <<"2">>,
                 get_feature_sequence(At(loop1Data, 2)),
                 get_feature_sequence(At(loop2Data, 2)),
                 loop_1_indices.v, loop_2_indices.v,
                 << <<loop_1_closing_pair[1], loop_1_closing_pair[2]>>,
                    <<loop_2_closing_pair[2], loop_2_closing_pair[1]>> >>,
                 cp_indices_1.v, cp_indices_2.v))

_create_external_loop_from_file_line(file_line) ==
    LET externalLoopData == Fields(file_line)
        indices == split_feature_index_string(At(externalLoopData, 1))
        cp5_indices == split_closing_pair_index_string(At(externalLoopData, 3))
        cp3_indices == split_closing_pair_index_string(At(externalLoopData, 5))
        e == FirstErr(<<IntsErr(externalLoopData, 1, indices),
                        AtErr(externalLoopData, 2),
                        IntsErr(externalLoopData, 3, cp5_indices),
                        AtErr(externalLoopData, 4),
                        IntsErr(externalLoopData, 5, cp3_indices),
                        AtErr(externalLoopData, 6)>>)
    IN  Built(e, ExternalLoop(
                 At(externalLoopData, 0),
                 get_feature_sequence(At(externalLoopData, 2)),
                 indices.v,
                 split_closing_pair_base_string(At(externalLoopData, 4)),
                 cp5_indices.v,
                 split_closing_pair_base_string(At(externalLoopData, 6)),
                 cp3_indices.v))

_create_end_from_file_line(file_line) ==
    LET end_data == Fields(file_line)
        end_indices == split_feature_index_string(At(end_data, 1))
        e == FirstErr(<<IntsErr(end_data, 1, end_indices), AtErr(end_data, 2)>>)
    IN  Built(e, End(At(end_data, 0), get_feature_sequence(At(end_data, 2)),
                     end_indices.v))

_create_NCBP_from_file_line(file_line) ==
    LET ncbpData == Fields(file_line)
        base1Span == int(At(ncbpData, 1))
        base2Span == int(At(ncbpData, 3))
        e == FirstErr(<<IntsErr(ncbpData, 1, base1Span), AtErr(ncbpData, 2),
                        IntsErr(ncbpData, 3, base2Span), AtErr(ncbpData, 4),
                        AtErr(ncbpData, 5)>>)
        loc == IF At(ncbpData, 5) = << >> THEN None ELSE At(ncbpData, 5)
    IN  Built(e, NCBP(At(ncbpData, 0), <<At(ncbpData, 2), At(ncbpData, 4)>>,
                      <<base1Span.v, base2Span.v>>, loc))

\* one pass of the loop over the subcomponent lines of a multiloop
MultiloopSubunit(line) ==
    LET loop == Fields(line)
        loop_indices == split_feature_index_string(At(loop, 1))
        cp5_indices == split_closing_pair_index_string(At(loop, 3))
        cp3_indices == split_closing_pair_index_string(At(loop, 5))
    IN  [err |-> FirstErr(<<IF At(loop, 0) = << >> THEN "IndexError" ELSE "",
                            IntsErr(loop, 1, loop_indices), AtErr(loop, 2),
                            IntsErr(loop, 3, cp5_indices), AtErr(loop, 4),
                            IntsErr(loop, 5, cp3_indices), AtErr(loop, 6)>>),
         subunitLabel |-> Slice(At(loop, 0), Len(At(loop, 0)) - 1, Len(At(loop, 0))),
         span |-> loop_indices.v,
         sequence |-> get_feature_sequence(At(loop, 2)),
         closingPair |-> <<split_closing_pair_base_string(At(loop, 4)),
                           split_closing_pair_base_string(At(loop, 6))>>,
         closingPairSpan |-> <<cp5_indices.v, cp3_indices.v>>]

_create_multiloop_from_subcomponent_list(parent_label, subcomponents) ==
    LET n == Len(subcomponents)
        sub == [k \in 1..n |-> MultiloopSubunit(subcomponents[k])]
        subunitLabels == [k \in 1..n |-> sub[k].subunitLabel]
        e == FirstErr([k \in 1..n |-> sub[k].err])
    IN  Built(e, Multiloop(
                 parent_label, subunitLabels,
                 DictFrom(<< >>, subunitLabels, [k \in 1..n |-> sub[k].sequence]),
                 DictFrom(<< >>, subunitLabels, [k \in 1..n |-> sub[k].span]),
                 DictFrom(<< >>, subunitLabels, [k \in 1..n |-> sub[k].closingPair]),
                 DictFrom(<< >>, subunitLabels,
                          [k \in 1..n |-> sub[k].closingPairSpan])))

-----------------------------------------------------------------------------
(* Free energy.  Energies are integers in units of 0.0001 kcal/mol.  The    *)
(* parameter tables are dicts, keyed as the energy functions index them.    *)

INTERMOLECULAR_INIT == 40900
STEM_SYMMETRY_PENALTY == 4300
STEM_AU_END_PENALTY == 4500
SPECIAL_C_BULGE == -9000
HAIRPIN_UU_GA_FIRST_MISMATCH_BONUS == -9000
HAIRPIN_GG_FIRST_MISMATCH_BONUS == -8000
HAIRPIN_SPECIAL_GU_CLOSURE == -22000
HAIRPIN_C3 == 15000
HAIRPIN_C_LOOP_A == 3000
HAIRPIN_C_LOOP_B == 16000

AU == <<"A", "U">>
UA == <<"U", "A">>
CG == <<"C", "G">>
GC == <<"G", "C">>
GU == <<"G", "U">>
UG == <<"U", "G">>

Entry(k, v) == [k |-> k, v |-> v]

\* StackingEnergies[pair][next pair]: the Watson-Crick stacks
StackingEnergies ==
    <<Entry(AU, <<Entry(AU, -9300), Entry(UA, -11000),
                  Entry(CG, -22400), Entry(GC, -20800)>>),
      Entry(UA, <<Entry(AU, -13300), Entry(UA, -9300),
                  Entry(CG, -23500), Entry(GC, -21100)>>),
      Entry(CG, <<Entry(AU, -21100), Entry(UA, -20800),
                  Entry(CG, -32600), Entry(GC, -23600)>>),
      Entry(GC, <<Entry(AU, -23500), Entry(UA, -22400),
                  Entry(CG, -34200), Entry(GC, -32600)>>)>>

\* StackTerminalMismatches[closing pair][(first base, last base)]
StackTerminalMismatches ==
    <<Entry(CG, <<Entry(<<"A", "A">>, -15000), Entry(<<"G", "A">>, -14000),
                  Entry(<<"G", "G">>, -16000), Entry(<<"U", "U">>, -14000),
                  Entry(<<"C", "C">>, -7000)>>),
      Entry(GU, <<Entry(<<"G", "G">>, -8000), Entry(<<"A", "A">>, -3000)>>)>>

\* SpecialHairpins[closing pair][loop sequence]; the table may or may not hold
\* a loop of fewer than three nucleotides
SpecialHairpins(short) ==
    <<Entry(CG, <<Entry(<<"A", "A", "C">>, 68000),
                  Entry(<<"U", "U", "C", "G">>, 37000)>>
                  \o (IF short THEN <<Entry(<<"A", "A">>, 50000)>> ELSE << >>)),
      Entry(GU, <<Entry(<<"G", "G", "G", "G">>, 30000)>>)>>

HairpinInit ==
    <<Entry(3, 54000), Entry(4, 56000), Entry(5, 57000), Entry(6, 54000),
      Entry(7, 60000), Entry(8, 61000), Entry(9, 62000)>>

BulgeInit ==
    <<Entry(1, 38000), Entry(2, 28000), Entry(3, 32000), Entry(4, 36000),
      Entry(5, 40000), Entry(6, 44000)>>

\* the tables InternalLoop.py reads, each keyed by the tuple the code builds
InnerLoopParameters ==
    [InternalLoopInit |-> <<Entry(4, 11000), Entry(5, 20000), Entry(6, 20000)>>,
     InnerLoop_1x1_Energies |->
         <<Entry(<<CG, CG, "A", "A">>, 9000), Entry(<<AU, GC, "G", "G">>, -14000)>>,
     InnerLoop_1x2_Energies |->
         <<Entry(<<CG, CG, "A", "A", "A">>, 23000),
           Entry(<<CG, GC, "A", "G", "A">>, 32000)>>,
     InnerLoop_2x2_Energies |->
         <<Entry(<<CG, CG, <<"A", "A">>, <<"A", "A">> >>, 13000),
           Entry(<<AU, CG, <<"G", "A">>, <<"A", "G">> >>, -7000)>>,
     InnerLoopMismatches_2x3 |->
         <<Entry(<<CG, <<"A", "G">> >>, -5000), Entry(<<CG, <<"G", "A">> >>, -11000),
           Entry(<<GC, <<"G", "A">> >>, -12000), Entry(<<GC, <<"G", "G">> >>, -8000),
           Entry(<<AU, <<"G", "A">> >>, -10000)>>,
     OtherInnerLoopMismtaches |->
         <<Entry(<<"A", "G">>, -8000), Entry(<<"G", "A">>, -10000),
           Entry(<<"G", "G">>, -12000), Entry(<<"U", "U">>, -7000)>>]

Parameters(short) ==
    [StackingEnergies |-> StackingEnergies,
     StackTerminalMismatches |-> StackTerminalMismatches,
     SpecialHairpins |-> SpecialHairpins(short),
     HairpinInit |-> HairpinInit,
     BulgeInit |-> BulgeInit,
     InnerLoop |-> InnerLoopParameters]

\* R * T * np.log(cCount) for the counts a special-C bulge can have
RTLog(cCount) ==
    CASE cCount = 1 -> 0
      [] cCount = 2 -> 4272
      [] cCount = 3 -> 6771

\* 1.75 * R * T * np.log(n / 6.0) for the lengths past the bulge table
BulgeLog(n) ==
    CASE n = 7 -> 1663
      [] n = 8 -> 3103
      [] n = 9 -> 4373
      [] n = 10 -> 5510

\* the outcomes of an energy call: a float, None, or an exception
Value(v) == [err |-> "", none |-> FALSE, v |-> v]

NoValue == [err |-> "", none |-> TRUE, v |-> 0]

Raised(e) == [err |-> e, none |-> TRUE, v |-> 0]

\* table[a][b], or the KeyError of either subscript
Lookup2(table, a, b) ==
    IF DictHas(table, a) /\ DictHas(DictGet(table, a), b)
    THEN Value(DictGet(DictGet(table, a), b))
    ELSE Raised("KeyError")

\* "for i in range(k, n): try: stack += StackingEnergies[seq[i]][seq[i+1]]"
\* with k counted from 0; a KeyError ends a strict call with None and is
\* skipped by a lenient one
RECURSIVE StackSum(_, _, _, _, _)
StackSum(seq, k, n, strict, stack) ==
    IF k >= n THEN Value(stack)
    ELSE IF k + 2 > Len(seq) THEN Raised("IndexError")
    ELSE IF Lookup2(params.StackingEnergies, seq[k + 1], seq[k + 2]).err # ""
    THEN IF strict THEN NoValue ELSE StackSum(seq, k + 1, n, strict, stack)
    ELSE StackSum(seq, k + 1, n, strict,
                  stack + Lookup2(params.StackingEnergies, seq[k + 1], seq[k + 2]).v)

EndPenalized(pair) == pair \in {AU, UA, GU, UG}

\* Stem.energy(strict, init) were a stem of one base pair summed like any other
Stem_energy_NoLengthTest(self, strict, init) ==
    IF self.sequence = << >> THEN Raised("IndexError")
    ELSE LET seq == self.sequence
             stack == StackSum(seq, 0, self.sequenceLen - 1, strict, 0)
         IN  IF stack.none THEN stack
             ELSE Value((IF init THEN INTERMOLECULAR_INIT ELSE 0)
                        + (IF self.sequence5p = self.sequence3p
                           THEN STEM_SYMMETRY_PENALTY ELSE 0)
                        + (IF EndPenalized(seq[1]) /\ ~self.adjacentBulges[1]
                           THEN STEM_AU_END_PENALTY ELSE 0)
                        + (IF EndPenalized(seq[Len(seq)]) /\ ~self.adjacentBulges[2]
                           THEN STEM_AU_END_PENALTY ELSE 0)
                        + stack.v)

\* Stem.energy(strict, init); seq[0] of a stem without base pairs is an
\* IndexError
Stem_energy(self, strict, init) ==
    IF self.sequenceLen = 1 THEN NoValue
    ELSE IF self.sequence = << >> THEN Raised("IndexError")
    ELSE LET seq == self.sequence
             stack == StackSum(seq, 0, self.sequenceLen - 1, strict, 0)
         IN  IF stack.none THEN stack
             ELSE Value((IF init THEN INTERMOLECULAR_INIT ELSE 0)
                        + (IF self.sequence5p = self.sequence3p
                           THEN STEM_SYMMETRY_PENALTY ELSE 0)
                        + (IF EndPenalized(seq[1]) /\ ~self.adjacentBulges[1]
                           THEN STEM_AU_END_PENALTY ELSE 0)
                        + (IF EndPenalized(seq[Len(seq)]) /\ ~self.adjacentBulges[2]
                           THEN STEM_AU_END_PENALTY ELSE 0)
                        + stack.v)

\* the initiation term of a hairpin: tabulated, or HairpinInit[9] + 1.75 * R
\* * T * np.log(n / 9.0), where np is a name Hairpin.py never imports
HairpinInitTerm(n) ==
    IF DictHas(params.HairpinInit, n) THEN Value(DictGet(params.HairpinInit, n))
    ELSE IF ~DictHas(params.HairpinInit, 9) THEN Raised("KeyError")
    ELSE Raised("NameError")

AllC(sequence) == \A k \in 1..Len(sequence) : sequence[k] = "C"

InSpecialHairpins(self) ==
    /\ DictHas(params.SpecialHairpins, self.closingPair)
    /\ DictHas(DictGet(params.SpecialHairpins, self.closingPair), self.sequence)

\* the branch of Hairpin.energy for four nucleotides or more
LongHairpinEnergy(self, strict, init, firstMismatch, terminalMismatch) ==
    IF init.none THEN init
    ELSE IF terminalMismatch.err # "" /\ strict THEN NoValue
    ELSE Value(init.v
               + (IF terminalMismatch.err # "" THEN 0 ELSE terminalMismatch.v)
               + (IF firstMismatch \in {<<"U", "U">>, <<"G", "A">>}
                  THEN HAIRPIN_UU_GA_FIRST_MISMATCH_BONUS ELSE 0)
               + (IF firstMismatch = <<"G", "G">>
                  THEN HAIRPIN_GG_FIRST_MISMATCH_BONUS ELSE 0)
               + (IF self.closingPair = GU /\ firstMismatch = <<"G", "G">>
                  THEN HAIRPIN_SPECIAL_GU_CLOSURE ELSE 0)
               + (IF AllC(self.sequence)
                  THEN self.sequenceLen * HAIRPIN_C_LOOP_A + HAIRPIN_C_LOOP_B
                  ELSE 0))

\* Hairpin.energy(strict) were the special-case table consulted first
Hairpin_energy_TableFirst(self, strict) ==
    IF InSpecialHairpins(self)
    THEN Value(DictGet(DictGet(params.SpecialHairpins, self.closingPair),
                       self.sequence))
    ELSE IF self.sequenceLen < 3 THEN NoValue
    ELSE IF self.sequenceLen = 3
    THEN IF HairpinInitTerm(3).none THEN HairpinInitTerm(3)
         ELSE IF AllC(self.sequence) THEN Value(HairpinInitTerm(3).v + HAIRPIN_C3)
         ELSE HairpinInitTerm(3)
    ELSE LongHairpinEnergy(
             self, strict, HairpinInitTerm(self.sequenceLen),
             <<self.sequence[1], self.sequence[Len(self.sequence)]>>,
             Lookup2(params.StackTerminalMismatches, self.closingPair,
                     <<self.sequence[1], self.sequence[Len(self.sequence)]>>))

\* Hairpin.energy(strict)
Hairpin_energy(self, strict) ==
    IF self.sequenceLen < 3 THEN NoValue
    ELSE IF InSpecialHairpins(self)
    THEN Value(DictGet(DictGet(params.SpecialHairpins, self.closingPair),
                       self.sequence))
    ELSE IF self.sequenceLen = 3
    THEN IF HairpinInitTerm(3).none THEN HairpinInitTerm(3)
         ELSE IF AllC(self.sequence) THEN Value(HairpinInitTerm(3).v + HAIRPIN_C3)
         ELSE HairpinInitTerm(3)
    ELSE LongHairpinEnergy(
             self, strict, HairpinInitTerm(self.sequenceLen),
             <<self.sequence[1], self.sequence[Len(self.sequence)]>>,
             Lookup2(params.StackTerminalMismatches, self.closingPair,
                     <<self.sequence[1], self.sequence[Len(self.sequence)]>>))

\* cCount of a special-C bulge: the bulged C and each closing pair led by C
CCount(self) ==
    1 + (IF self.closingPair5p[1] = "C" THEN 1 ELSE 0)
      + (IF self.closingPair3p[1] = "C" THEN 1 ELSE 0)

\* the length-1 branch of Bulge.energy once the stacking term is known
ShortBulgeEnergy(self, basePairStack) ==
    IF self.sequence = <<"C">>
          /\ (self.closingPair5p[1] = "C" \/ self.closingPair3p[1] = "C")
    THEN Value(DictGet(params.BulgeInit, 1) + basePairStack + SPECIAL_C_BULGE
               - RTLog(CCount(self)))
    ELSE Value(DictGet(params.BulgeInit, 1) + basePairStack)

\* Bulge.energy(strict) were a missing stacking entry fatal in both modes
Bulge_energy_AlwaysStrict(self, strict) ==
    IF self.sequenceLen = 1
    THEN IF Lookup2(params.StackingEnergies, self.closingPair5p,
                    self.closingPair3p).err # ""
         THEN NoValue
         ELSE ShortBulgeEnergy(self, Lookup2(params.StackingEnergies,
                                             self.closingPair5p,
                                             self.closingPair3p).v)
    ELSE IF DictHas(params.BulgeInit, self.sequenceLen)
    THEN Value(DictGet(params.BulgeInit, self.sequenceLen))
    ELSE Value(DictGet(params.BulgeInit, 6) + BulgeLog(self.sequenceLen))

\* Bulge.energy(strict), for a bulge of at least one nucleotide
Bulge_energy(self, strict) ==
    IF self.sequenceLen = 1
    THEN IF Lookup2(params.StackingEnergies, self.closingPair5p,
                    self.closingPair3p).err # ""
         THEN IF strict THEN NoValue ELSE ShortBulgeEnergy(self, 0)
         ELSE ShortBulgeEnergy(self, Lookup2(params.StackingEnergies,
                                             self.closingPair5p,
                                             self.closingPair3p).v)
    ELSE IF DictHas(params.BulgeInit, self.sequenceLen)
    THEN Value(DictGet(params.BulgeInit, self.sequenceLen))
    ELSE Value(DictGet(params.BulgeInit, 6) + BulgeLog(self.sequenceLen))

-----------------------------------------------------------------------------
(* Free energy of an internal loop.  energy(strict) stores its argument in   *)
(* the record's _strict field, which the mismatch routines read.             *)

INNER_LOOP_ASYMMETRY_PENALTY == 6000

\* 1.08 * np.log(n / 6.0) for the loop lengths the initiation table lacks
InnerLoopLog(n) ==
    CASE n = 2 -> -11865
      [] n = 3 -> -7486
      [] n = 7 -> 1665
      [] n = 8 -> 3107

\* (pair[1], pair[0])
Reversed(pair) == <<pair[2], pair[1]>>

_getInnerLoopInitEnergy(self) ==
    IF DictHas(params.InnerLoop.InternalLoopInit, Len(self.loop5p) + Len(self.loop3p))
    THEN DictGet(params.InnerLoop.InternalLoopInit,
                 Len(self.loop5p) + Len(self.loop3p))
    ELSE DictGet(params.InnerLoop.InternalLoopInit, 6)
             + InnerLoopLog(Len(self.loop5p) + Len(self.loop3p))

_getInnerLoopAsymmetryEnergy(self) ==
    abs(Len(self.loop5p) - Len(self.loop3p)) * INNER_LOOP_ASYMMETRY_PENALTY

_getInnerLoopClosingPenalty(self) ==
    (IF self.closingPairs[1] \in {AU, GU, UA, UG} THEN 7000 ELSE 0)
        + (IF self.closingPairs[2] \in {AU, GU, UA, UG} THEN 7000 ELSE 0)

\* the two lookups of a mismatch routine: a key the table holds adds its
\* value, a key it lacks ends a strict call with None
MismatchSum(table, key1, key2, strict) ==
    IF strict /\ (~DictHas(table, key1) \/ ~DictHas(table, key2)) THEN NoValue
    ELSE Value((IF DictHas(table, key1) THEN DictGet(table, key1) ELSE 0)
               + (IF DictHas(table, key2) THEN DictGet(table, key2) ELSE 0))

Last(seq) == seq[Len(seq)]

_getInnerLoopMismatchEnergy_3x2(self) ==
    MismatchSum(params.InnerLoop.InnerLoopMismatches_2x3,
                <<Reversed(self.closingPairs[2]), <<self.loop3p[1], Last(self.loop5p)>> >>,
                <<Reversed(self.closingPairs[1]), <<self.loop5p[1], Last(self.loop3p)>> >>,
                self.strict)

_getInnerLoopMismatchEnergy_2x3(self) ==
    MismatchSum(params.InnerLoop.InnerLoopMismatches_2x3,
                <<self.closingPairs[1], <<self.loop5p[1], Last(self.loop3p)>> >>,
                <<Reversed(self.closingPairs[2]), <<self.loop3p[1], Last(self.loop5p)>> >>,
                self.strict)

_getInnerLoopMismatchEnergy_Other(self) ==
    MismatchSum(params.InnerLoop.OtherInnerLoopMismtaches,
                <<self.loop5p[1], Last(self.loop3p)>>,
                <<Last(self.loop5p), self.loop3p[1]>>,
                self.strict)

\* 1 x (n-1) and (n-1) x 1 loops have no mismatch term
_getInnerLoopMismtachEnergy(self) ==
    IF Len(self.loop5p) = 1 \/ Len(self.loop3p) = 1 THEN Value(0)
    ELSE IF Len(self.loop5p) = 2 /\ Len(self.loop3p) = 3
    THEN _getInnerLoopMismatchEnergy_2x3(self)
    ELSE IF Len(self.loop5p) = 3 /\ Len(self.loop3p) = 2
    THEN _getInnerLoopMismatchEnergy_3x2(self)
    ELSE _getInnerLoopMismatchEnergy_Other(self)

_calcEnergy(self) ==
    IF _getInnerLoopMismtachEnergy(self).none THEN NoValue
    ELSE Value(_getInnerLoopInitEnergy(self) + _getInnerLoopAsymmetryEnergy(self)
               + _getInnerLoopClosingPenalty(self)
               + _getInnerLoopMismtachEnergy(self).v)

\* the exact-match table of a 1x1, 1x2, 2x1 or 2x2 loop and the key the code
\* builds for it; no table for any other shape
ExactMatch(self) ==
    CASE Len(self.loop5p) = 1 /\ Len(self.loop3p) = 1 ->
           [table |-> params.InnerLoop.InnerLoop_1x1_Energies,
            key |-> <<self.closingPairs[1], self.closingPairs[2],
                      self.loop5p[1], self.loop3p[1]>>]
      [] Len(self.loop5p) = 1 /\ Len(self.loop3p) = 2 ->
           [table |-> params.InnerLoop.InnerLoop_1x2_Energies,
            key |-> <<self.closingPairs[1], self.closingPairs[2],
                      self.loop5p[1], self.loop3p[2], self.loop3p[1]>>]
      [] Len(self.loop5p) = 2 /\ Len(self.loop3p) = 1 ->
           [table |-> params.InnerLoop.InnerLoop_1x2_Energies,
            key |-> <<Reversed(self.closingPairs[2]), Reversed(self.closingPairs[1]),
                      self.loop3p[1], self.loop5p[2], self.loop5p[1]>>]
      [] Len(self.loop5p) = 2 /\ Len(self.loop3p) = 2 ->
           [table |-> params.InnerLoop.InnerLoop_2x2_Energies,
            key |-> <<self.closingPairs[1], self.closingPairs[2],
                      <<self.loop5p[1], self.loop3p[2]>>,
                      <<self.loop5p[2], self.loop3p[1]>> >>]
      [] OTHER -> [table |-> << >>, key |-> << >>]

\* what InternalLoop.energy returns once self._strict is set
EnergyAsSet(self) ==
    IF DictHas(ExactMatch(self).table, ExactMatch(self).key)
    THEN Value(DictGet(ExactMatch(self).table, ExactMatch(self).key))
    ELSE IF ExactMatch(self).table # << >> /\ self.strict THEN NoValue
    ELSE _calcEnergy(self)

\* InternalLoop.energy(strict) were a loop its exact-match table lacks always
\* given the general formula
InternalLoop_energy_FormulaOnMiss(self, strict) ==
    IF DictHas(ExactMatch(self).table, ExactMatch(self).key)
    THEN Value(DictGet(ExactMatch(self).table, ExactMatch(self).key))
    ELSE _calcEnergy([self EXCEPT !.strict = FALSE])

\* the value InternalLoop.energy(strict) returns
InternalLoop_energy(self, strict) == EnergyAsSet([self EXCEPT !.strict = strict])

\* InternalLoop.canonical(): it reads the _strict the last energy call left
InternalLoop_canonical(self) ==
    IF ExactMatch(self).table # << >>
    THEN DictHas(ExactMatch(self).table, ExactMatch(self).key)
    ELSE ~_getInnerLoopMismtachEnergy(self).none

-----------------------------------------------------------------------------
(* Structure: the aggregate *)

NoneInt == [none |-> TRUE]

SomeInt(n) == [none |-> FALSE, v |-> n]

NoArray == [none |-> TRUE]

\* Structure.__init__
Structure ==
    [name |-> None, length |-> NoneInt, pageNum |-> NoneInt,
     sequence |-> None, DBN |-> None, structureArray |-> None, varna |-> None,
     stems |-> << >>, hairpins |-> << >>, bulges |-> << >>,
     internalLoops |-> << >>, multiLoops |-> << >>, externalLoops |-> << >>,
     pk |-> << >>, ncbp |-> << >>, ends |-> << >>,
     componentArray |-> NoArray]

\* resetStructure() were the Component Array left as it is
resetKeepingArray(self) ==
    [self EXCEPT !.name = None, !.length = NoneInt, !.pageNum = NoneInt,
                 !.sequence = None, !.DBN = None, !.structureArray = None,
                 !.varna = None,
                 !.stems = << >>, !.hairpins = << >>, !.bulges = << >>,
                 !.internalLoops = << >>, !.multiLoops = << >>,
                 !.externalLoops = << >>, !.pk = << >>, !.ncbp = << >>,
                 !.ends = << >>]

\* every field back to None, every dict cleared
resetStructure(self) ==
    [self EXCEPT !.name = None, !.length = NoneInt, !.pageNum = NoneInt,
                 !.sequence = None, !.DBN = None, !.structureArray = None,
                 !.varna = None,
                 !.stems = << >>, !.hairpins = << >>, !.bulges = << >>,
                 !.internalLoops = << >>, !.multiLoops = << >>,
                 !.externalLoops = << >>, !.pk = << >>, !.ncbp = << >>,
                 !.ends = << >>,
                 !.componentArray = NoArray]

\* np.empty(length, dtype=object): every entry None
np_empty(length) ==
    IF length < 0 THEN [err |-> "ValueError", a |-> NoArray]
    ELSE [err |-> "", a |-> [none |-> FALSE, a |-> [k \in 1..length |-> None]]]

\* the 1-indexed position of numpy index idx, 0 when it is out of bounds;
\* a negative index counts from the end
np_index(a, idx) ==
    IF 0 <= idx /\ idx < Len(a) THEN idx + 1
    ELSE IF idx < 0 /\ 0 - idx <= Len(a) THEN Len(a) + idx + 1
    ELSE 0

\* "for i in range(lo, hi): self._componentArray[i] = label", keeping the
\* writes made before an exception
RECURSIVE FillRange(_, _, _, _)
FillRange(arr, lo, hi, label) ==
    IF lo >= hi THEN [err |-> "", a |-> arr]
    ELSE IF arr.none THEN [err |-> "TypeError", a |-> arr]
    ELSE IF np_index(arr.a, lo) = 0 THEN [err |-> "IndexError", a |-> arr]
    ELSE FillRange([arr EXCEPT !.a[np_index(arr.a, lo)] = label],
                   lo + 1, hi, label)

\* range(span[0]-1, span[1]) over a span tuple of any length
FillSpan(arr, span, label) ==
    IF Len(span) < 2 THEN [err |-> "IndexError", a |-> arr]
    ELSE FillRange(arr, span[1] - 1, span[2], label)

_addStemToComponentArray(self, stem) ==
    LET first == FillSpan(self.componentArray, stem.sequence5pSpan, stem.label)
    IN  IF first.err # "" THEN first
        ELSE FillSpan(first.a, stem.sequence3pSpan, stem.label)

_addBulgeToComponentArray(self, bulge) ==
    FillSpan(self.componentArray, bulge.span, bulge.label)

_addHairpinToComponentArray(self, hairpin) ==
    FillSpan(self.componentArray, hairpin.span, hairpin.label)

_addEndToComponentArray(self, end) ==
    FillSpan(self.componentArray, end.span, end.label)

_addInternalLoopToComponentArray(self, internalLoop) ==
    LET first == FillSpan(self.componentArray, internalLoop.span5p,
                          internalLoop.parentLabel)
    IN  IF first.err # "" THEN first
        ELSE FillSpan(first.a, internalLoop.span3p, internalLoop.parentLabel)

_addExternalLoopToComponentArray(self, el) ==
    FillSpan(self.componentArray, el.span, el.label)

\* every subunit span is written under the parent label
RECURSIVE FillSubunits(_, _, _)
FillSubunits(arr, multiloop, subunits) ==
    IF subunits = << >> THEN [err |-> "", a |-> arr]
    ELSE LET one == FillSpan(arr, DictGet(multiloop.spans, Head(subunits)),
                             multiloop.parentLabel)
         IN  IF one.err # "" THEN one
             ELSE FillSubunits(one.a, multiloop, Tail(subunits))

_addMultiLoopToComponentArray(self, multiloop) ==
    FillSubunits(self.componentArray, multiloop, multiloop.subunitLabels)

\* features() were the hairpin labels put before the bulge labels
featuresHairpinsFirst(self) ==
    DictKeys(self.stems) \o DictKeys(self.hairpins) \o DictKeys(self.bulges)
        \o DictKeys(self.internalLoops)

\* features(): stem, bulge, hairpin and internal-loop labels, in that order
features_of(self) ==
    DictKeys(self.stems) \o DictKeys(self.bulges) \o DictKeys(self.hairpins)
        \o DictKeys(self.internalLoops)

\* component(label): the dict the leading character selects, "" for none
KindOf(label) ==
    CASE label[1] = "S" -> "stems"
      [] label[1] = "H" -> "hairpins"
      [] label[1] = "B" -> "bulges"
      [] label[1] = "X" -> "externalLoops"
      [] label[1] = "E" -> "ends"
      [] label[1] = "N" -> "ncbp"
      [] label[1] = "I" -> "internalLoops"
      [] label[1] = "M" -> "multiLoops"
      [] OTHER -> ""

DictOfKind(self, kind) ==
    CASE kind = "stems" -> self.stems
      [] kind = "hairpins" -> self.hairpins
      [] kind = "bulges" -> self.bulges
      [] kind = "externalLoops" -> self.externalLoops
      [] kind = "ends" -> self.ends
      [] kind = "ncbp" -> self.ncbp
      [] kind = "internalLoops" -> self.internalLoops
      [] kind = "multiLoops" -> self.multiLoops
      [] OTHER -> << >>

\* component(label) were an E label looked up among the external loops
componentEndAsExternal(self, label) ==
    LET kind == IF label[1] = "E" THEN "externalLoops" ELSE KindOf(label)
        d == DictOfKind(self, kind)
    IN  IF DictHas(d, label)
        THEN [found |-> TRUE, kind |-> kind, rec |-> DictGet(d, label)]
        ELSE [found |-> FALSE, kind |-> kind, rec |-> NoRecord]

\* component(label): None (found = FALSE) for an unknown sigil or label
component(self, label) ==
    LET kind == KindOf(label)
        d == DictOfKind(self, kind)
    IN  IF DictHas(d, label)
        THEN [found |-> TRUE, kind |-> kind, rec |-> DictGet(d, label)]
        ELSE [found |-> FALSE, kind |-> kind, rec |-> NoRecord]

-----------------------------------------------------------------------------
(* Structure.neighbors *)

Elements(a) == {a[k] : k \in 1..Len(a)}

\* one "try: self._componentArray[idx] except: 'EOM'" of neighbors(); ok is
\* FALSE when computing idx itself raised
NeighborAt(self, ok, idx) ==
    IF ~ok \/ np_index(self.componentArray.a, idx) = 0 THEN EOM
    ELSE self.componentArray.a[np_index(self.componentArray.a, idx)]

\* the two sides of one integer span
Sides(self, span) ==
    <<NeighborAt(self, Len(span) >= 1, IF Len(span) >= 1 THEN span[1] - 2 ELSE 0),
      NeighborAt(self, Len(span) >= 2, IF Len(span) >= 2 THEN span[2] ELSE 0)>>

\* neighbors(label): none when the label is not in the Component Array; a
\* pair of sides for an integer span; two cross-paired pairs for a pair of
\* spans; a Multiloop's span() is a dict, whose every lookup is caught
neighbors(self, label) ==
    IF self.componentArray.none THEN [err |-> "TypeError", none |-> TRUE, v |-> << >>]
    ELSE IF label \notin Elements(self.componentArray.a)
    THEN [err |-> "", none |-> TRUE, v |-> << >>]
    ELSE LET c == component(self, label)
         IN  IF ~c.found THEN [err |-> "AttributeError", none |-> TRUE, v |-> << >>]
             ELSE IF c.kind = "multiLoops"
             THEN [err |-> "", none |-> FALSE, v |-> <<<<EOM, EOM>>, <<EOM, EOM>>>>]
             ELSE IF c.kind \in {"stems", "internalLoops"}
             THEN LET span0 == IF c.kind = "stems" THEN c.rec.sequence5pSpan
                               ELSE c.rec.span5p
                      span1 == IF c.kind = "stems" THEN c.rec.sequence3pSpan
                               ELSE c.rec.span3p
                      seq1 == Sides(self, span0)
                      seq2 == Sides(self, span1)
                  IN  [err |-> "", none |-> FALSE,
                       v |-> <<<<seq1[1], seq2[2]>>, <<seq2[1], seq1[2]>>>>]
             ELSE [err |-> "", none |-> FALSE,
                   v |-> Sides(self, IF c.kind = "ncbp" THEN c.rec.basePairSpan
                                     ELSE c.rec.span)]

\* object=True: self.component(entry) in place of the entry; an unfilled
\* entry (None) raises inside the try and becomes 'EOM'
AsObject(self, entry) ==
    IF entry = EOM \/ entry = None THEN [eom |-> TRUE]
    ELSE [eom |-> FALSE, label |-> entry, found |-> component(self, entry).found]

\* Bulge defines length() and no sequenceLen(): the call raises
sequenceLen(self, label) ==
    LET c == component(self, label)
    IN  IF c.kind = "bulges" THEN [err |-> "AttributeError", v |-> 0]
        ELSE IF c.kind \in {"internalLoops", "multiLoops", "ncbp", "ends"}
        THEN [err |-> "AttributeError", v |-> 0]
        ELSE [err |-> "", v |-> c.rec.sequenceLen]

\* the flag of one end of a stem: "if a is a Bulge: a.sequenceLen() == 1
\* elif b is a Bulge: b.sequenceLen() == 1"
AdjacentBulge(self, a, b) ==
    LET isBulge(o) == ~o.eom /\ o.label[1] = "B"
        pick == IF isBulge(a) THEN a ELSE b
    IN  IF (~a.eom /\ ~a.found) THEN [err |-> "AttributeError", v |-> FALSE]
        ELSE IF ~isBulge(a) /\ ~b.eom /\ ~b.found
        THEN [err |-> "AttributeError", v |-> FALSE]
        ELSE IF isBulge(pick)
        THEN [err |-> sequenceLen(self, pick.label).err,
              v |-> sequenceLen(self, pick.label).v = 1]
        ELSE [err |-> "", v |-> FALSE]

\* the flags of the stems from the k-th on, stopping at the first exception;
\* unpacking the None of a stem that is not in the array raises TypeError
RECURSIVE StemBulgeBooleansFrom(_, _)
StemBulgeBooleansFrom(self, k) ==
    IF k > Len(self.stems) THEN [err |-> "", stems |-> self.stems]
    ELSE LET stem == self.stems[k].v
             nb == neighbors(self, stem.label)
             obj(p, q) == AsObject(self, nb.v[p][q])
             bool5p == AdjacentBulge(self, obj(1, 1), obj(1, 2))
             bool3p == AdjacentBulge(self, obj(2, 1), obj(2, 2))
         IN  IF nb.err # "" THEN [err |-> nb.err, stems |-> self.stems]
             ELSE IF nb.none THEN [err |-> "TypeError", stems |-> self.stems]
             ELSE IF bool5p.err # "" THEN [err |-> bool5p.err, stems |-> self.stems]
             ELSE IF bool3p.err # "" THEN [err |-> bool3p.err, stems |-> self.stems]
             ELSE StemBulgeBooleansFrom(
                      [self EXCEPT !.stems[k].v.adjacentBulges =
                                       <<bool5p.v, bool3p.v>>],
                      k + 1)

_addStemBulgeNeighborBooleans(self) == StemBulgeBooleansFrom(self, 1)

-----------------------------------------------------------------------------
(* The files the loader is run on.  A file is written from a description:   *)
(* the #Length value, how many of the four mandatory lines it has, and the  *)
(* body as a list of line descriptors [k, label, owner, a, b, c, d, text].  *)
(* k names the record kind; "raw" is a line given as text.                  *)

MaxLength == 5       \* longest molecule of the generated tilings
MaxProbePos == 2     \* last body position at which a probe line is inserted
MaxRun == 11         \* longest multiloop run

RECURSIVE Str(_)
Str(n) ==
    LET d == <<"0", "1", "2", "3", "4", "5", "6", "7", "8", "9">>
    IN  IF n < 10 THEN <<d[n + 1]>> ELSE Str(n \div 10) \o <<d[(n % 10) + 1]>>

Base(n) == <<"A", "C", "G", "U">>[((n + 3) % 4) + 1]

Quoted(a, b) == <<"\"">> \o [k \in 1..(b - a + 1) |-> Base(a + k - 1)] \o <<"\"">>

SP == <<" ">>

SpanText(a, b) == Str(a) \o <<".", ".">> \o Str(b)

PairText(a, b) ==
    <<"(">> \o Str(a) \o <<",">> \o Str(b) \o <<")">> \o SP
        \o <<Base(a), ":", Base(b)>>

Desc(k, label, owner, a, b, c, d, text) ==
    [k |-> k, label |-> label, owner |-> owner, a |-> a, b |-> b, c |-> c,
     d |-> d, text |-> text]

dS(n, a, b, c, d) == Desc("S", <<"S">> \o Str(n), <<"S">> \o Str(n), a, b, c, d, << >>)
dH(n, a, b) == Desc("H", <<"H">> \o Str(n), <<"H">> \o Str(n), a, b, 0, 0, << >>)
dB(n, a, b, c, d) == Desc("B", <<"B">> \o Str(n), <<"B">> \o Str(n), a, b, c, d, << >>)
dI(n, a, b, c, d) == Desc("I", <<"I">> \o Str(n), <<"I">> \o Str(n), a, b, c, d, << >>)
dM(n, sub, a, b) ==
    Desc("M", <<"M">> \o Str(n) \o <<".">> \o Str(sub), <<"M">> \o Str(n),
         a, b, 0, 0, << >>)
dX(n, a, b) == Desc("X", <<"X">> \o Str(n), <<"X">> \o Str(n), a, b, 0, 0, << >>)
dE(n, a, b) == Desc("E", <<"E">> \o Str(n), <<"E">> \o Str(n), a, b, 0, 0, << >>)
dN(n, a, b, loc) ==
    Desc("N", <<"N", "C", "B", "P">> \o Str(n), << >>, a, b, 0, 0, loc)
dRaw(text) == Desc("raw", << >>, << >>, 0, 0, 0, 0, text)

\* the lines one descriptor is written as (two for an internal loop)
RenderDesc(x) ==
    CASE x.k = "S" ->
           <<x.label \o SP \o SpanText(x.a, x.b) \o SP \o Quoted(x.a, x.b) \o SP
                 \o SpanText(x.c, x.d) \o SP \o Quoted(x.c, x.d)>>
      [] x.k = "H" ->
           <<x.label \o SP \o SpanText(x.a, x.b) \o SP \o Quoted(x.a, x.b) \o SP
                 \o PairText(x.a - 1, x.b + 1)>>
      [] x.k = "B" ->
           <<x.label \o SP \o SpanText(x.a, x.b) \o SP \o Quoted(x.a, x.b) \o SP
                 \o PairText(x.a - 1, x.d + 1) \o SP \o PairText(x.c, x.d)>>
      [] x.k = "I" ->
           <<x.label \o <<".", "1">> \o SP \o SpanText(x.a, x.b) \o SP
                 \o Quoted(x.a, x.b) \o SP \o PairText(x.a - 1, x.d + 1),
             x.label \o <<".", "2">> \o SP \o SpanText(x.c, x.d) \o SP
                 \o Quoted(x.c, x.d) \o SP \o PairText(x.c - 1, x.b + 1)>>
      [] x.k \in {"M", "X"} ->
           <<x.label \o SP \o SpanText(x.a, x.b) \o SP \o Quoted(x.a, x.b) \o SP
                 \o PairText(x.a - 1, x.b + 2) \o SP \o PairText(x.b + 1, x.b + 3)>>
      [] x.k = "E" ->
           <<x.label \o SP \o SpanText(x.a, x.b) \o SP \o Quoted(x.a, x.b)>>
      [] x.k = "N" ->
           <<x.label \o SP \o Str(x.a) \o SP \o <<Base(x.a)>> \o SP \o Str(x.b)
                 \o SP \o <<Base(x.b)>> \o SP \o x.text>>
      [] x.k = "raw" -> <<x.text>>

RECURSIVE RenderBody(_)
RenderBody(body) ==
    IF body = << >> THEN << >>
    ELSE RenderDesc(Head(body)) \o RenderBody(Tail(body))

\* the header directives and the four mandatory lines of a molecule of
\* length L; hdr is "full", "nolength" or "none"
Repeat(c, n) == [k \in 1..n |-> c]

Directives(L, hdr) ==
    (IF hdr = "none" THEN << >>
     ELSE <<<<"#", "N", "a", "m", "e", ":", " ", "r", "1">>>>)
    \o (IF hdr = "full"
        THEN <<<<"#", "L", "e", "n", "g", "t", "h", ":", " ">> \o Str(L) \o <<",">>>>
        ELSE << >>)
    \o (IF hdr = "none" THEN << >>
        ELSE <<<<"#", "P", "a", "g", "e", "N", "u", "m", "b", "e", "r", ":", " ", "7">>>>)

Mandatory(L) ==
    <<[k \in 1..L |-> Base(k)], Repeat(".", L), Repeat("E", L), Repeat("K", L)>>

\* [length, hdr, mand, body]: mand is how many of the mandatory lines exist
Doc(L, hdr, mand, body) ==
    [length |-> L, hdr |-> hdr, mand |-> mand, body |-> body]

RenderDoc(d) ==
    Directives(d.length, d.hdr) \o SubSeq(Mandatory(d.length), 1, d.mand)
        \o RenderBody(d.body)

\* the ways of cutting 1..n into consecutive segments of one or two nucleotides
RECURSIVE Tilings(_)
Tilings(n) ==
    IF n = 0 THEN {<< >>}
    ELSE {<<1>> \o t : t \in Tilings(n - 1)}
         \cup (IF n >= 2 THEN {<<2>> \o t : t \in Tilings(n - 2)} ELSE {})

RECURSIVE Sum(_)
Sum(t) == IF t = << >> THEN 0 ELSE Head(t) + Sum(Tail(t))

\* the j-th segment of tiling t as a record line; the kinds rotate from off
TileDesc(t, j, off) ==
    LET a == Sum(SubSeq(t, 1, j - 1)) + 1
        b == a + t[j] - 1
        kind == <<"E", "H", "B", "X">>[((j + off) % 4) + 1]
    IN  CASE kind = "E" -> dE(j, a, b)
          [] kind = "H" -> dH(j, a, b)
          [] kind = "B" -> dB(j, a, b, b + 1, b + 3)
          [] kind = "X" -> dX(j, a, b)

TilingDocs ==
    {Doc(Sum(t), "full", 4, [j \in 1..Len(t) |-> TileDesc(t, j, off)]) :
        t \in UNION {Tilings(n) : n \in 1..MaxLength}, off \in 0..3}

\* a stem closed over a hairpin (the molecule ACGUACGUAC)
StemHairpinDoc == Doc(10, "full", 4, <<dS(1, 1, 3, 8, 10), dH(1, 4, 7)>>)

\* the same with one unpaired nucleotide at each end of the molecule
EndsDoc ==
    Doc(10, "full", 4, <<dS(1, 2, 3, 8, 9), dH(1, 4, 7), dE(1, 1, 1), dE(2, 10, 10)>>)

\* two stems separated by a bulge of n nucleotides on the 5' strand
BulgeDoc(n) ==
    Doc(13 + n, "full", 4,
        <<dS(1, 1, 2, 12 + n, 13 + n), dS(2, 3 + n, 5 + n, 9 + n, 11 + n),
          dH(1, 6 + n, 8 + n), dB(1, 3, 2 + n, 3 + n, 11 + n)>>)

\* two stems separated by an internal loop; the stems are listed last or first
InternalLoopDoc(stemsLast) ==
    LET stems == <<dS(1, 1, 2, 15, 16), dS(2, 5, 6, 11, 12)>>
        rest == <<dH(1, 7, 10), dI(1, 3, 4, 13, 14)>>
    IN  Doc(16, "full", 4, IF stemsLast THEN rest \o stems ELSE stems \o rest)

\* EndsDoc with a non-canonical base pair listed among its records
NcbpDoc ==
    Doc(10, "full", 4,
        <<dS(1, 2, 3, 8, 9), dH(1, 4, 7), dN(1, 5, 6, <<"H", "1">>), dE(1, 1, 1),
          dE(2, 10, 10)>>)

\* loop numbers of one, two and three digits
LoopNumbers == {1, 12, 101}

\* InternalLoopDoc with the internal loop numbered n, listed after or before
\* the hairpin
LoopNumberDoc(n, loopLast) ==
    LET stems == <<dS(1, 1, 2, 15, 16), dS(2, 5, 6, 11, 12)>>
    IN  Doc(16, "full", 4,
            stems \o (IF loopLast THEN <<dH(1, 7, 10), dI(n, 3, 4, 13, 14)>>
                      ELSE <<dI(n, 3, 4, 13, 14), dH(1, 7, 10)>>))

LoopNumberDocs == {LoopNumberDoc(n, loopLast) : n \in LoopNumbers, loopLast \in BOOLEAN}

\* a file with no #Length directive
NoLengthDoc == Doc(2, "nolength", 4, <<dE(1, 1, 2)>>)

ScenarioDocs ==
    {StemHairpinDoc, EndsDoc, BulgeDoc(1), BulgeDoc(2), InternalLoopDoc(TRUE),
     InternalLoopDoc(FALSE), NcbpDoc, NoLengthDoc}

\* a run of k multiloop lines M1.1 .. M1.k, followed or not by another line
RunDoc(k, followed) ==
    Doc(IF followed THEN k + 1 ELSE k, "full", 4,
        [j \in 1..k |-> dM(1, j, j, j)]
            \o (IF followed THEN <<dX(1, k + 1, k + 1)>> ELSE << >>))

RunDocs == {RunDoc(k, followed) : k \in 1..MaxRun, followed \in BOOLEAN}

\* files that end before the fourth mandatory line
ShortDocs == {Doc(3, hdr, mand, << >>) : hdr \in {"full", "none"}, mand \in 0..3}

\* single lines written by hand: a hairpin, a stem, an end and an NCBP line
\* with the given span token and trailing text
HairpinLine(spanToken, extra) ==
    <<"H", "9">> \o SP \o spanToken \o SP \o Quoted(4, 7) \o SP \o PairText(3, 8)
        \o extra

StemLine(spanToken, extra) ==
    <<"S", "9">> \o SP \o spanToken \o SP \o Quoted(2, 3) \o SP \o SpanText(8, 9)
        \o SP \o Quoted(8, 9) \o extra

NCBPLine(first, tail) ==
    <<"N", "C", "B", "P", "1">> \o SP \o first \o SP \o <<"A">> \o SP \o Str(9) \o SP
        \o <<"G">> \o tail

ProbeLines ==
    {<< >>, <<"S">>, <<"Q">>, <<"N">>,
     <<"S", "x">> \o SP \o SpanText(1, 2),
     <<"Q", "1">> \o SP \o SpanText(1, 2),
     RenderDesc(dI(1, 2, 3, 8, 9))[2],
     HairpinLine(SpanText(4, 7), << >>),
     HairpinLine(Str(4), << >>),
     HairpinLine(SpanText(4, 7) \o <<".", ".", "9">>, << >>),
     HairpinLine(<<"4", ".", ".", "x">>, << >>),
     HairpinLine(SpanText(4, 7), SP \o <<"z">>),
     <<"H", "9">> \o SP \o SpanText(4, 7),
     StemLine(SpanText(2, 3), << >>),
     StemLine(SpanText(2, 3) \o <<".", ".", "5">>, << >>),
     StemLine(SpanText(2, 3), SP \o <<"z">>),
     <<"E", "9">> \o SP \o Str(1) \o SP \o Quoted(1, 1),
     <<"E", "9">>,
     NCBPLine(Str(5), SP \o <<"H", "1">>),
     NCBPLine(Str(5), SP),
     NCBPLine(Str(5), << >>),
     NCBPLine(Str(5), SP \o SP \o <<"H", "1">>),
     NCBPLine(<<"x">>, SP \o <<"H", "1">>)}

\* EndsDoc with one hand-written line inserted after its first p lines
ProbeDocs ==
    {Doc(10, "full", 4,
         SubSeq(EndsDoc.body, 1, p) \o <<dRaw(line)>>
             \o SubSeq(EndsDoc.body, p + 1, Len(EndsDoc.body))) :
        line \in ProbeLines, p \in 0..MaxProbePos}

Docs ==
    TilingDocs \cup ScenarioDocs \cup RunDocs \cup ShortDocs \cup ProbeDocs
        \cup LoopNumberDocs

-----------------------------------------------------------------------------
(* StructureCreator.create *)

NL == "\n"

\* the file as one text: every line ends with '\n' but, when fileNL is
\* FALSE, the last
RECURSIVE FileText(_, _)
FileText(lines, nl) ==
    IF lines = << >> THEN << >>
    ELSE IF Len(lines) = 1 THEN Head(lines) \o (IF nl THEN <<NL>> ELSE << >>)
    ELSE Head(lines) \o <<NL>> \o FileText(Tail(lines), nl)

\* the line "for line in f" yields after n lines have been read
NextLine == FileText(<<fileLines[pos + 1]>>, pos + 1 < Len(fileLines) \/ fileNL)

\* f.read(): what is left of the file after n lines
Rest(n) == FileText(SubSeq(fileLines, n + 1, Len(fileLines)), fileNL)

\* list[:-1]
DropLast(list) == SubSeq(list, 1, Len(list) - 1)

Init ==
    /\ doc \in Docs
    /\ fileNL \in BOOLEAN
    /\ fileLines = RenderDoc(doc)
    /\ pos = 0
    /\ flags = <<FALSE, FALSE, FALSE, FALSE>>
    /\ features = << >>
    /\ i = 0
    /\ new_structure = Structure
    /\ pc = "header"
    /\ err = ""
    /\ calls = << >>
    /\ result = NoResult
    /\ params = Parameters(FALSE)

Raise(e, self) ==
    /\ pc' = "failed"
    /\ err' = e
    /\ new_structure' = self
    /\ UNCHANGED <<fileLines, fileNL, pos, flags, features, i, doc, calls, result, params>>

\* a line that starts with '#': #Name:, #Length:, #PageNumber:, or ignored
HeaderDirective ==
    /\ pc = "header" /\ pos < Len(fileLines)
    /\ NextLine[1] = "#"
    /\ LET line == NextLine
           length == int(strip(strip(Slice(line, 8, Len(line)), Whitespace), {","}))
           array == np_empty(length.v)
           pageNum == int(strip(Slice(line, 12, Len(line)), Whitespace))
       IN  IF Slice(line, 0, 6) = <<"#", "N", "a", "m", "e", ":">>
           THEN /\ new_structure' =
                       [new_structure EXCEPT
                           !.name = strip(Slice(line, 6, Len(line)), Whitespace)]
                /\ pos' = pos + 1
                /\ UNCHANGED <<pc, err>>
           ELSE IF Slice(line, 0, 8) = <<"#", "L", "e", "n", "g", "t", "h", ":">>
           THEN IF length.err # ""
                THEN /\ pc' = "failed" /\ err' = length.err
                     /\ UNCHANGED <<new_structure, pos>>
                ELSE /\ new_structure' =
                            [new_structure EXCEPT !.length = SomeInt(length.v),
                                                  !.componentArray = array.a]
                     /\ pos' = pos + 1
                     /\ UNCHANGED <<pc, err>>
           ELSE IF Slice(line, 0, 12)
                       = <<"#", "P", "a", "g", "e", "N", "u", "m", "b", "e", "r", ":">>
           THEN IF pageNum.err # ""
                THEN /\ pc' = "failed" /\ err' = pageNum.err
                     /\ UNCHANGED <<new_structure, pos>>
                ELSE /\ new_structure' =
                            [new_structure EXCEPT !.pageNum = SomeInt(pageNum.v)]
                     /\ pos' = pos + 1
                     /\ UNCHANGED <<pc, err>>
           ELSE /\ pos' = pos + 1
                /\ UNCHANGED <<new_structure, pc, err>>
    /\ UNCHANGED <<fileLines, fileNL, flags, features, i, doc, calls, result, params>>

\* one of the first three mandatory lines: sequence, dot-bracket, structure
\* array, by the first flag that is still False
HeaderDescriptor ==
    /\ pc = "header" /\ pos < Len(fileLines)
    /\ NextLine[1] # "#"
    /\ ~flags[3]
    /\ LET value == strip(NextLine, Whitespace)
       IN  IF ~flags[1]
           THEN /\ new_structure' = [new_structure EXCEPT !.sequence = value]
                /\ flags' = [flags EXCEPT ![1] = TRUE]
           ELSE IF ~flags[2]
           THEN /\ new_structure' = [new_structure EXCEPT !.DBN = value]
                /\ flags' = [flags EXCEPT ![2] = TRUE]
           ELSE /\ new_structure' = [new_structure EXCEPT !.structureArray = value]
                /\ flags' = [flags EXCEPT ![3] = TRUE]
    /\ pos' = pos + 1
    /\ UNCHANGED <<fileLines, fileNL, features, i, pc, err, doc, calls, result, params>>

\* the fourth mandatory line: the rest of the file is read, the loop breaks,
\* and the body is split into lines with the last element dropped
HeaderLast ==
    /\ pc = "header" /\ pos < Len(fileLines)
    /\ NextLine[1] # "#"
    /\ flags[3] /\ ~flags[4]
    /\ new_structure' = [new_structure EXCEPT !.varna = strip(NextLine, Whitespace)]
    /\ flags' = [flags EXCEPT ![4] = TRUE]
    /\ pos' = pos + 1
    /\ features' = DropLast(split(Rest(pos + 1), <<NL>>))
    /\ i' = 0
    /\ pc' = "body"
    /\ UNCHANGED <<fileLines, fileNL, err, doc, calls, result, params>>

\* the file ends before the fourth mandatory line: the loop falls through
\* and "features.split" reads a name that was never bound
HeaderExhausted ==
    /\ pc = "header" /\ pos = Len(fileLines)
    /\ Raise("UnboundLocalError", new_structure)

\* the branch of the if/elif chain that features[i] takes; "error" when
\* evaluating the chain itself raises
Branch(line) ==
    LET stem == is_stem(line)
    IN  IF stem.err # "" THEN "error"
        ELSE IF stem.v THEN "stem"
        ELSE IF line[1] = "H" THEN "hairpin"
        ELSE IF line[1] = "B" THEN "bulge"
        ELSE IF line[1] = "I" /\ re_search_internal_loop(line) THEN "internalLoop"
        ELSE IF line[1] = "M" THEN "multiLoop"
        ELSE IF line[1] = "X" THEN "externalLoop"
        ELSE IF Slice(line, 0, 4) = <<"N", "C", "B", "P">> THEN "ncbp"
        ELSE IF line[1] = "E" THEN "end"
        ELSE "skip"

\* the loop is at a line that takes branch b
At_(b) == pc = "body" /\ i < Len(features) /\ Branch(features[i + 1]) = b

\* addStem .. addEnd: self._<kind>[label] = record; an internal loop and a
\* multiloop are stored under their parent label
add(self, kind, rec) ==
    CASE kind = "stems" -> [self EXCEPT !.stems = DictSet(@, rec.label, rec)]
      [] kind = "hairpins" -> [self EXCEPT !.hairpins = DictSet(@, rec.label, rec)]
      [] kind = "bulges" -> [self EXCEPT !.bulges = DictSet(@, rec.label, rec)]
      [] kind = "internalLoops" ->
           [self EXCEPT !.internalLoops = DictSet(@, rec.parentLabel, rec)]
      [] kind = "multiLoops" ->
           [self EXCEPT !.multiLoops = DictSet(@, rec.parentLabel, rec)]
      [] kind = "externalLoops" ->
           [self EXCEPT !.externalLoops = DictSet(@, rec.label, rec)]
      [] kind = "ncbp" -> [self EXCEPT !.ncbp = DictSet(@, rec.label, rec)]
      [] kind = "ends" -> [self EXCEPT !.ends = DictSet(@, rec.label, rec)]

\* the Component Array writer the branch calls; an NCBP is never written
addToComponentArray(self, kind, rec) ==
    CASE kind = "stems" -> _addStemToComponentArray(self, rec)
      [] kind = "hairpins" -> _addHairpinToComponentArray(self, rec)
      [] kind = "bulges" -> _addBulgeToComponentArray(self, rec)
      [] kind = "internalLoops" -> _addInternalLoopToComponentArray(self, rec)
      [] kind = "multiLoops" -> _addMultiLoopToComponentArray(self, rec)
      [] kind = "externalLoops" -> _addExternalLoopToComponentArray(self, rec)
      [] kind = "ncbp" -> [err |-> "", a |-> self.componentArray]
      [] kind = "ends" -> _addEndToComponentArray(self, rec)

\* the end of a branch: the writes made to the array are kept, and the
\* cursor moves on by step lines unless the writer raised
Written(added, filled, step) ==
    IF filled.err # ""
    THEN Raise(filled.err, [added EXCEPT !.componentArray = filled.a])
    ELSE /\ new_structure' = [added EXCEPT !.componentArray = filled.a]
         /\ i' = i + step
         /\ UNCHANGED <<fileLines, fileNL, pos, flags, features, pc, err, doc, calls, result, params>>

Added(added, kind, rec, step) ==
    Written(added, addToComponentArray(added, kind, rec), step)

\* a branch body: the constructor's result is stored by the add method and
\* then written to the Component Array; the constructor's exception ends
\* create() before anything is stored
Store(built, kind, step) ==
    IF built.err # "" THEN Raise(built.err, new_structure)
    ELSE Added(add(new_structure, kind, built.rec), kind, built.rec, step)

DispatchError ==
    /\ At_("error")
    /\ Raise(is_stem(features[i + 1]).err, new_structure)

AddStem ==
    /\ At_("stem")
    /\ Store(_create_stem_from_file_line(features[i + 1]), "stems", 1)

AddHairpin ==
    /\ At_("hairpin")
    /\ Store(_create_hairpin_from_file_line(features[i + 1]), "hairpins", 1)

AddBulge ==
    /\ At_("bulge")
    /\ Store(_create_bulge_from_file_line(features[i + 1]), "bulges", 1)

\* the line after the '.1' line is passed along unchecked; reading it past
\* the end of the list raises
AddInternalLoop ==
    /\ At_("internalLoop")
    /\ IF i + 1 >= Len(features) THEN Raise("IndexError", new_structure)
       ELSE Store(_create_internal_loop_from_file_line(features[i + 1],
                                                       features[i + 2]),
                  "internalLoops", 1)

\* the number of lines from the k-th (1-indexed) on whose parent label is
\* parentLabel, counted up to the end of the list
RECURSIVE RunLength(_, _, _)
RunLength(lines, k, parentLabel) ==
    IF k > Len(lines) \/ get_loop_parent_label(lines[k]) # parentLabel THEN 0
    ELSE 1 + RunLength(lines, k + 1, parentLabel)

\* the linear probe has collected n lines: it stopped at a line with another
\* parent label, or it read past the end of the list and raised
Probed(parentLabel, n) ==
    IF i + n >= Len(features)
    THEN /\ i' = i + n
         /\ pc' = "failed"
         /\ err' = "IndexError"
         /\ UNCHANGED <<fileLines, fileNL, pos, flags, features, new_structure, doc, calls, result, params>>
    ELSE Store(_create_multiloop_from_subcomponent_list(
                   parentLabel, SubSeq(features, i + 1, i + n)),
               "multiLoops", n)

Probe(parentLabel) == Probed(parentLabel, RunLength(features, i + 1, parentLabel))

AddMultiLoop ==
    /\ At_("multiLoop")
    /\ Probe(get_loop_parent_label(features[i + 1]))

AddExternalLoop ==
    /\ At_("externalLoop")
    /\ Store(_create_external_loop_from_file_line(features[i + 1]),
             "externalLoops", 1)

AddNCBP ==
    /\ At_("ncbp")
    /\ Store(_create_NCBP_from_file_line(features[i + 1]), "ncbp", 1)

AddEnd ==
    /\ At_("end")
    /\ Store(_create_end_from_file_line(features[i + 1]), "ends", 1)

\* no branch of the chain is taken: only "i += 1" runs
SkipLine ==
    /\ At_("skip")
    /\ i' = i + 1
    /\ UNCHANGED <<fileLines, fileNL, pos, flags, features, new_structure, pc,
                   err, doc, calls, result, params>>

\* the flags were computed for every stem, or an exception ended the pass
\* after the stems before it were flagged
Return(flagged) ==
    IF flagged.err # ""
    THEN Raise(flagged.err, [new_structure EXCEPT !.stems = flagged.stems])
    ELSE /\ new_structure' = [new_structure EXCEPT !.stems = flagged.stems]
         /\ pc' = "done"
         /\ UNCHANGED <<fileLines, fileNL, pos, flags, features, i, err, doc, calls, result, params>>

\* the loop is over: f.close(), the adjacent-bulge flags are computed, and
\* the Structure is returned
Finish ==
    /\ pc = "body" /\ i >= Len(features)
    /\ Return(_addStemBulgeNeighborBooleans(new_structure))

Next ==
    \/ HeaderDirective
    \/ HeaderDescriptor
    \/ HeaderLast
    \/ HeaderExhausted
    \/ DispatchError
    \/ AddStem
    \/ AddHairpin
    \/ AddBulge
    \/ AddInternalLoop
    \/ AddMultiLoop
    \/ AddExternalLoop
    \/ AddNCBP
    \/ AddEnd
    \/ SkipLine
    \/ Finish

Spec == Init /\ [][Next]_vars

-----------------------------------------------------------------------------
(* The aggregate driven through its own methods: header fields are assigned *)
(* as create() assigns them, records are added under labels, queries are    *)
(* made, and the aggregate is reset.                                        *)

MaxCalls == 3        \* longest sequence of assignments, adds and resets

Kinds ==
    {"stems", "hairpins", "bulges", "internalLoops", "multiLoops",
     "externalLoops", "ncbp", "ends"}

\* add<Kind>(label, record) were a label's first record kept:
\* self._<kind>.setdefault(label, record)
addKindKeepFirst(self, kind, label, rec) ==
    LET d == CASE kind = "stems" -> self.stems
               [] kind = "hairpins" -> self.hairpins
               [] kind = "bulges" -> self.bulges
               [] kind = "internalLoops" -> self.internalLoops
               [] kind = "multiLoops" -> self.multiLoops
               [] kind = "externalLoops" -> self.externalLoops
               [] kind = "ncbp" -> self.ncbp
               [] kind = "ends" -> self.ends
        e == IF DictHas(d, label) THEN d ELSE Append(d, [k |-> label, v |-> rec])
    IN  CASE kind = "stems" -> [self EXCEPT !.stems = e]
          [] kind = "hairpins" -> [self EXCEPT !.hairpins = e]
          [] kind = "bulges" -> [self EXCEPT !.bulges = e]
          [] kind = "internalLoops" -> [self EXCEPT !.internalLoops = e]
          [] kind = "multiLoops" -> [self EXCEPT !.multiLoops = e]
          [] kind = "externalLoops" -> [self EXCEPT !.externalLoops = e]
          [] kind = "ncbp" -> [self EXCEPT !.ncbp = e]
          [] kind = "ends" -> [self EXCEPT !.ends = e]

\* add<Kind>(label, record): self._<kind>[label] = record
addKind(self, kind, label, rec) ==
    CASE kind = "stems" -> [self EXCEPT !.stems = DictSet(@, label, rec)]
      [] kind = "hairpins" -> [self EXCEPT !.hairpins = DictSet(@, label, rec)]
      [] kind = "bulges" -> [self EXCEPT !.bulges = DictSet(@, label, rec)]
      [] kind = "internalLoops" ->
           [self EXCEPT !.internalLoops = DictSet(@, label, rec)]
      [] kind = "multiLoops" -> [self EXCEPT !.multiLoops = DictSet(@, label, rec)]
      [] kind = "externalLoops" ->
           [self EXCEPT !.externalLoops = DictSet(@, label, rec)]
      [] kind = "ncbp" -> [self EXCEPT !.ncbp = DictSet(@, label, rec)]
      [] kind = "ends" -> [self EXCEPT !.ends = DictSet(@, label, rec)]

\* list(d.values())
Values(d) == [n \in 1..Len(d) |-> d[n].v]

\* _get<Kind>ByLabel(label): the record, or None after the KeyError
_getByLabel(self, kind, label) ==
    IF DictHas(DictOfKind(self, kind), label)
    THEN [none |-> FALSE, rec |-> DictGet(DictOfKind(self, kind), label)]
    ELSE [none |-> TRUE]

\* <kind>s(label=None): "if label:" takes the lookup, anything falsy the list
records(self, kind, label) ==
    IF label # None /\ label # << >>
    THEN [list |-> FALSE, one |-> _getByLabel(self, kind, label)]
    ELSE [list |-> TRUE, all |-> Values(DictOfKind(self, kind))]

\* num<Kind>s()
numRecords(self, kind) == Len(DictOfKind(self, kind))

\* the header assignments of create(), one field at a time
assign(self, field) ==
    CASE field = "name" -> [self EXCEPT !.name = <<"r", "1">>]
      [] field = "length" ->
           [self EXCEPT !.length = SomeInt(2), !.componentArray = np_empty(2).a]
      [] field = "pageNum" -> [self EXCEPT !.pageNum = SomeInt(7)]
      [] field = "sequence" -> [self EXCEPT !.sequence = <<"A", "C">>]
      [] field = "DBN" -> [self EXCEPT !.DBN = <<".", ".">>]
      [] field = "structureArray" -> [self EXCEPT !.structureArray = <<"E", "E">>]
      [] field = "varna" -> [self EXCEPT !.varna = <<"K", "K">>]

HeaderFields ==
    {"name", "length", "pageNum", "sequence", "DBN", "structureArray", "varna"}

\* the labels and the records the adds are drawn from; a record may be
\* stored under a label that is not its own
ApiLabels(kind) ==
    CASE kind = "stems" -> {<<"S", "1">>, <<"S", "2">>}
      [] kind = "hairpins" -> {<<"H", "1">>}
      [] kind = "bulges" -> {<<"B", "1">>}
      [] kind = "internalLoops" -> {<<"I", "1">>}
      [] kind = "multiLoops" -> {<<"M", "1">>}
      [] kind = "externalLoops" -> {<<"X", "1">>}
      [] kind = "ncbp" -> {<<"N", "C", "B", "P", "1">>}
      [] kind = "ends" -> {<<"E", "1">>}

ApiRecords(kind) ==
    CASE kind = "stems" ->
           {_create_stem_from_file_line(RenderDesc(dS(1, 1, 2, 7, 8))[1]).rec,
            _create_stem_from_file_line(RenderDesc(dS(1, 1, 1, 8, 8))[1]).rec}
      [] kind = "hairpins" ->
           {_create_hairpin_from_file_line(RenderDesc(dH(1, 3, 6))[1]).rec}
      [] kind = "bulges" ->
           {_create_bulge_from_file_line(RenderDesc(dB(1, 3, 3, 4, 11))[1]).rec}
      [] kind = "internalLoops" ->
           {_create_internal_loop_from_file_line(
                RenderDesc(dI(1, 3, 4, 13, 14))[1],
                RenderDesc(dI(1, 3, 4, 13, 14))[2]).rec,
            _create_internal_loop_from_file_line(
                RenderDesc(dI(1, 3, 3, 13, 13))[1],
                RenderDesc(dI(1, 3, 3, 13, 13))[2]).rec}
      [] kind = "multiLoops" ->
           {_create_multiloop_from_subcomponent_list(
                <<"M", "1">>, RenderDesc(dM(1, 1, 1, 1))).rec}
      [] kind = "externalLoops" ->
           {_create_external_loop_from_file_line(RenderDesc(dX(1, 1, 1))[1]).rec}
      [] kind = "ncbp" ->
           {_create_NCBP_from_file_line(
                RenderDesc(dN(1, 5, 6, <<"H", "1">>))[1]).rec}
      [] kind = "ends" -> {_create_end_from_file_line(RenderDesc(dE(1, 1, 1))[1]).rec}

\* the labels component() is asked for: one per sigil, one absent from its
\* map unless added, and two with a leading character of no kind
QueryLabels ==
    UNION {ApiLabels(kind) : kind \in Kinds}
        \cup {<<"H", "2">>, <<"Q", "1">>, <<"P", "K", "1">>}

Call(op, kind, label, rec) == [op |-> op, kind |-> kind, label |-> label, rec |-> rec]

\* the add<Kind>(label, record) calls drawn
ApiAdds ==
    UNION {{Call("add", kind, label, rec) :
               label \in ApiLabels(kind), rec \in ApiRecords(kind)} : kind \in Kinds}

ApiInit ==
    /\ new_structure = Structure
    /\ pc = "api"
    /\ calls = << >>
    /\ result = NoResult
    /\ fileLines = << >>
    /\ fileNL = TRUE
    /\ pos = 0
    /\ flags = <<FALSE, FALSE, FALSE, FALSE>>
    /\ features = << >>
    /\ i = 0
    /\ err = ""
    /\ doc = Doc(0, "none", 0, << >>)
    /\ params = Parameters(FALSE)

ApiFrame ==
    UNCHANGED <<fileLines, fileNL, pos, flags, features, i, pc, err, doc, params>>

Called(self, call) ==
    /\ Len(calls) < MaxCalls
    /\ new_structure' = self
    /\ calls' = Append(calls, call)
    /\ result' = NoResult
    /\ ApiFrame

ApiAssign ==
    \E field \in HeaderFields :
        Called(assign(new_structure, field), Call("assign", field, << >>, NoRecord))

ApiAdd ==
    \E a \in ApiAdds :
        Called(addKind(new_structure, a.kind, a.label, a.rec), a)

ApiReset ==
    Called(resetStructure(new_structure), Call("reset", "", << >>, NoRecord))

\* component(label) assigns nothing
ApiComponent ==
    \E label \in QueryLabels :
        /\ result' = [op |-> "component", label |-> label,
                      value |-> component(new_structure, label)]
        /\ UNCHANGED <<new_structure, calls>>
        /\ ApiFrame

ApiNext ==
    \/ ApiAssign
    \/ ApiAdd
    \/ ApiReset
    \/ ApiComponent

ApiSpec == ApiInit /\ [][ApiNext]_vars

-----------------------------------------------------------------------------
(* The functions of one record or one token, applied to an input drawn from  *)
(* a bounded set; the parameter tables are drawn with it.                    *)

MaxArm == 2          \* longest arm of a stem
MaxLoop == 4         \* longest hairpin loop, but for the one past the table
MaxBulge == 2        \* longest bulge, but for the one past the table
MaxToken == 3        \* longest sequence token, but for the quoted one

Bases == {"A", "C", "G", "U"}

SeqsUpTo(chars, n) == UNION {[1..k -> chars] : k \in 0..n}

\* the closing pairs drawn: three the stacking table holds, one it holds only
\* as a first key, one it does not hold
ClosingPairs == {CG, GC, AU, GU, <<"A", "A">>}

EnergyStems ==
    {[Stem(<<"S", "1">>, a, b, <<1, Len(a)>>, <<9, 8 + Len(b)>>)
         EXCEPT !.adjacentBulges = f] :
        a \in SeqsUpTo(Bases, MaxArm), b \in SeqsUpTo(Bases, MaxArm),
        f \in {<<FALSE, FALSE>>, <<TRUE, FALSE>>, <<FALSE, TRUE>>, <<TRUE, TRUE>>}}

EnergyHairpins ==
    {Hairpin(<<"H", "1">>, a, <<2, 1 + Len(a)>>, cp, <<1, 2 + Len(a)>>) :
        a \in SeqsUpTo(Bases, MaxLoop) \cup {Repeat("A", 10)},
        cp \in {CG, GU, AU}}

EnergyBulges ==
    {Bulge(<<"B", "1">>, a, <<2, 1 + Len(a)>>, cp5, <<1, 20>>, cp3, <<2 + Len(a), 19>>) :
        a \in (SeqsUpTo(Bases, MaxBulge) \ {<< >>}) \cup {Repeat("A", 7)},
        cp5 \in ClosingPairs, cp3 \in ClosingPairs}

TokenChars == {"a", "A", "-", "1"}

Tokens ==
    SeqsUpTo(TokenChars, MaxToken) \cup {<<"a", "A", "c", "-", "G", "u", "U">>}

MaxIndex == 12       \* largest index written into an index token

\* the tokens the splitters are given, each with the values it was written
\* from: "a..b", "(a,b)" and "x:y"
TokenOf(a, b) == [label |-> << >>, a |-> a, b |-> b]

SplitterInputs ==
    {Call("split", "a..b", SpanText(a, b), TokenOf(a, b)) :
         a \in 0..MaxIndex, b \in 0..MaxIndex}
      \cup {Call("split", "(a,b)",
                  <<"(">> \o Str(a) \o <<",">> \o Str(b) \o <<")">>, TokenOf(a, b)) :
                a \in 0..MaxIndex, b \in 0..MaxIndex}
      \cup {Call("split", "x:y", <<x, ":", y>>, [label |-> << >>, x |-> x, y |-> y]) :
                x \in Bases, y \in Bases}

\* a bulge line whose trailing closing pair is written "(t5,t3) x:y"
BulgeLine(stop, t5, t3, x, y) ==
    <<"B", "1">> \o SP \o SpanText(stop, stop) \o SP \o Quoted(stop, stop) \o SP
        \o PairText(stop - 1, stop + 1) \o SP
        \o <<"(">> \o Str(t5) \o <<",">> \o Str(t3) \o <<")">> \o SP \o <<x, ":", y>>

BulgeLineInputs ==
    {Call("bulge_line", "B", BulgeLine(stop, t5, t3, p[1], p[2]),
          [stop |-> stop, t5 |-> t5, t3 |-> t3, x |-> p[1], y |-> p[2]]) :
         stop \in {5, 8}, t5 \in 1..MaxIndex, t3 \in 1..MaxIndex, p \in {CG, GU, AU}}

FunctionInputs ==
    BulgeLineInputs \cup
    {Call("energy", "stems", rec.label, rec) : rec \in EnergyStems}
        \cup {Call("energy", "hairpins", rec.label, rec) : rec \in EnergyHairpins}
        \cup {Call("energy", "bulges", rec.label, rec) : rec \in EnergyBulges}
        \cup {Call("get_feature_sequence", "", token, NoRecord) : token \in Tokens}
        \cup SplitterInputs

FunctionInit ==
    /\ \E input \in FunctionInputs : calls = <<input>>
    /\ params \in {Parameters(short) : short \in BOOLEAN}
    /\ result = NoResult
    /\ pc = "call"
    /\ new_structure = Structure
    /\ fileLines = << >>
    /\ fileNL = TRUE
    /\ pos = 0
    /\ flags = <<FALSE, FALSE, FALSE, FALSE>>
    /\ features = << >>
    /\ i = 0
    /\ err = ""
    /\ doc = Doc(0, "none", 0, << >>)

\* a call returns: nothing but the result changes
Returned(kind, strict, init, value) ==
    /\ pc = "call"
    /\ calls[1].kind = kind
    /\ result' = [op |-> calls[1].op, strict |-> strict, init |-> init,
                  value |-> value]
    /\ UNCHANGED <<fileLines, fileNL, pos, flags, features, i, new_structure, pc,
                   err, doc, calls, params>>

StemEnergy ==
    \E strict \in BOOLEAN : \E init \in BOOLEAN :
        Returned("stems", strict, init, Stem_energy(calls[1].rec, strict, init))

HairpinEnergy ==
    \E strict \in BOOLEAN :
        Returned("hairpins", strict, FALSE, Hairpin_energy(calls[1].rec, strict))

BulgeEnergy ==
    \E strict \in BOOLEAN :
        Returned("bulges", strict, FALSE, Bulge_energy(calls[1].rec, strict))

FeatureSequence ==
    Returned("", FALSE, FALSE, get_feature_sequence(calls[1].label))

\* the splitter of the token's format
SplitAs(kind, token) ==
    CASE kind = "a..b" -> split_feature_index_string(token)
      [] kind = "(a,b)" -> split_closing_pair_index_string(token)
      [] kind = "x:y" -> [err |-> "", v |-> split_closing_pair_base_string(token)]

SplitToken ==
    \E kind \in {"a..b", "(a,b)", "x:y"} :
        Returned(kind, FALSE, FALSE, SplitAs(kind, calls[1].label))

BulgeFromLine ==
    Returned("B", FALSE, FALSE, _create_bulge_from_file_line(calls[1].label))

FunctionNext ==
    \/ BulgeFromLine
    \/ StemEnergy
    \/ HairpinEnergy
    \/ BulgeEnergy
    \/ FeatureSequence
    \/ SplitToken

FunctionSpec == FunctionInit /\ [][FunctionNext]_vars

-----------------------------------------------------------------------------
(* A record stored in an aggregate and driven through its own methods: the  *)
(* sequence setters, energy(strict), canonical() and, for an internal loop, *)
(* the aggregate's getInternalLoopSubunit().  calls[1] is the construction, *)
(* the later entries are the method calls made since.                       *)

MaxMethodCalls == 2      \* method calls made on the record
MaxHalf == 3             \* longest half of an internal loop

\* _setSequence(): the pair list is rebuilt only when the arms agree in length
_setSequence(self) ==
    IF Len(self.sequence5p) = Len(self.sequence3p)
    THEN [self EXCEPT !.sequence = zip_reversed(self.sequence5p, self.sequence3p)]
    ELSE self

_setSequenceLen(self) ==
    [self EXCEPT !.sequenceLen = (Len(self.sequence5p) + Len(self.sequence3p)) \div 2]

\* Stem.sequence5p(newSequence): an empty argument is the getter
Stem_sequence5p(self, newSequence) ==
    IF newSequence # << >> /\ Len(newSequence) = self.sequenceLen
    THEN _setSequence([self EXCEPT !.sequence5p = newSequence])
    ELSE self

Stem_sequence3p(self, newSequence) ==
    IF newSequence # << >> /\ Len(newSequence) = self.sequenceLen
    THEN _setSequence([self EXCEPT !.sequence3p = newSequence])
    ELSE self

Stem_sequence(self, sequence5p, sequence3p) ==
    IF sequence5p # << >> /\ sequence3p # << >> /\ Len(sequence5p) = Len(sequence3p)
    THEN _setSequenceLen(_setSequence([self EXCEPT !.sequence5p = sequence5p,
                                                   !.sequence3p = sequence3p]))
    ELSE self

\* Hairpin.sequence(newSequence) and Bulge.sequence(newSequence)
Loop_sequence(self, newSequence) ==
    IF newSequence # << >>
    THEN [self EXCEPT !.sequence = newSequence, !.sequenceLen = Len(newSequence)]
    ELSE self

\* End.sequence(newSequence): _sequenceLen is left as it was
End_sequence(self, newSequence) ==
    IF newSequence # << >> THEN [self EXCEPT !.sequence = newSequence] ELSE self

_updateLoopLen(self) ==
    [self EXCEPT !.loopsLen = <<Len(self.loop5p), Len(self.loop3p)>>]

InternalLoop_loops(self, loop5p, loop3p) ==
    IF loop5p # << >> /\ loop3p # << >>
    THEN _updateLoopLen([self EXCEPT !.loop5p = loop5p, !.loop3p = loop3p])
    ELSE self

InternalLoop_loop5p(self, loop) ==
    IF loop # << >> THEN _updateLoopLen([self EXCEPT !.loop5p = loop]) ELSE self

InternalLoop_loop3p(self, loop) ==
    IF loop # << >> THEN _updateLoopLen([self EXCEPT !.loop3p = loop]) ELSE self

\* Structure.getInternalLoopSubunit(parentLabel, subunitLabel): the record has
\* no attribute _5pSequence or _3pSequence, and None has no _parentLabel;
\* the attributes of the dict literal are read in order
getInternalLoopSubunit(self, parentLabel, subunitLabel) ==
    IF subunitLabel \in {<<"1">>, <<"2">>} THEN Raised("AttributeError")
    ELSE NoValue

LoopBases == {"A", "G"}
LoopHalves == SeqsUpTo(LoopBases, MaxHalf) \ {<< >>}
SetterSequences == {<< >>, <<"G">>, <<"G", "A", "G">>}

RecordLoops ==
    {InternalLoop(<<"I", "1">>, <<"1">>, <<"2">>, a, b, <<3, 2 + Len(a)>>,
                  <<13, 12 + Len(b)>>, <<cp0, cp1>>,
                  << <<2, 13 + Len(b)>>, <<3 + Len(a), 12>> >>, << >>) :
        a \in LoopHalves, b \in LoopHalves, cp0 \in {CG, AU}, cp1 \in {CG, GC}}

RecordStems ==
    {Stem(<<"S", "1">>, a, b, <<1, Len(a)>>, <<9, 8 + Len(b)>>) :
        a \in {<<"A">>, <<"A", "G">>, <<"A", "G", "A">>},
        b \in {<<"U">>, <<"C", "U">>, <<"U", "C", "U">>}}

RecordInputs ==
    {Call("build", "internalLoops", r.parentLabel, r) : r \in RecordLoops}
        \cup {Call("build", "stems", r.label, r) : r \in RecordStems}
        \cup {Call("build", "hairpins", r.label, r) :
                  r \in {h \in EnergyHairpins : h.closingPair = CG /\ Len(h.sequence) \in 3..4
                                                /\ h.sequence \in SeqsUpTo(LoopBases, 4)}}
        \cup {Call("build", "bulges", r.label, r) :
                  r \in {g \in EnergyBulges : g.closingPair5p = CG /\ g.closingPair3p = CG
                                              /\ g.sequence \in SeqsUpTo(LoopBases, 2)}}
        \cup {Call("build", "ends", <<"E", "1">>, End(<<"E", "1">>, a, <<1, Len(a)>>)) :
                  a \in LoopHalves}

RecordInit ==
    /\ \E input \in RecordInputs :
           /\ calls = <<input>>
           /\ new_structure = addKind(Structure, input.kind, input.label, input.rec)
    /\ params = Parameters(FALSE)
    /\ result = NoResult
    /\ pc = "record"
    /\ fileLines = << >>
    /\ fileNL = TRUE
    /\ pos = 0
    /\ flags = <<FALSE, FALSE, FALSE, FALSE>>
    /\ features = << >>
    /\ i = 0
    /\ err = ""
    /\ doc = Doc(0, "none", 0, << >>)

\* the record as the aggregate holds it now
TheRecord == DictGet(DictOfKind(new_structure, calls[1].kind), calls[1].label)

\* a method call returns, leaving the record as rec
MethodCalled(kind, rec, call, returned) ==
    /\ pc = "record"
    /\ calls[1].kind = kind
    /\ Len(calls) <= MaxMethodCalls
    /\ new_structure' = addKind(new_structure, kind, calls[1].label, rec)
    /\ calls' = Append(calls, call)
    /\ result' = returned
    /\ UNCHANGED <<fileLines, fileNL, pos, flags, features, i, pc, err, doc, params>>

EnergyReturned(strict, value) == [op |-> "energy", strict |-> strict, value |-> value]

\* energy(strict) of a stem, a hairpin or a bulge reads the record only
RecordEnergy ==
    \E strict \in BOOLEAN :
        \/ MethodCalled("stems", TheRecord, Call("energy", "stems", strict, << >>),
                        EnergyReturned(strict, Stem_energy(TheRecord, strict, FALSE)))
        \/ MethodCalled("hairpins", TheRecord, Call("energy", "hairpins", strict, << >>),
                        EnergyReturned(strict, Hairpin_energy(TheRecord, strict)))
        \/ MethodCalled("bulges", TheRecord, Call("energy", "bulges", strict, << >>),
                        EnergyReturned(strict, Bulge_energy(TheRecord, strict)))

\* InternalLoop.energy(strict): self._strict = strict, then the value
InternalLoopEnergy ==
    \E strict \in BOOLEAN :
        MethodCalled("internalLoops", [TheRecord EXCEPT !.strict = strict],
                     Call("energy", "internalLoops", strict, << >>),
                     EnergyReturned(strict, InternalLoop_energy(TheRecord, strict)))

InternalLoopCanonical ==
    MethodCalled("internalLoops", TheRecord,
                 Call("canonical", "internalLoops", << >>, << >>),
                 [op |-> "canonical", value |-> InternalLoop_canonical(TheRecord)])

InternalLoopSubunit ==
    \E subunitLabel \in {<<"1">>, <<"2">>, <<"3">>} :
        MethodCalled("internalLoops", TheRecord,
                     Call("subunit", "internalLoops", subunitLabel, << >>),
                     [op |-> "subunit",
                      value |-> getInternalLoopSubunit(new_structure, calls[1].label,
                                                       subunitLabel)])

Set(op, a, b) == Call(op, calls[1].kind, a, b)

StemSetter ==
    \E a \in SetterSequences :
        \/ MethodCalled("stems", Stem_sequence5p(TheRecord, a),
                        Set("sequence5p", a, << >>), NoResult)
        \/ MethodCalled("stems", Stem_sequence3p(TheRecord, a),
                        Set("sequence3p", a, << >>), NoResult)
        \/ \E b \in SetterSequences :
               MethodCalled("stems", Stem_sequence(TheRecord, a, b),
                            Set("sequence", a, b), NoResult)

LoopSetter ==
    \E a \in SetterSequences :
        \/ MethodCalled("hairpins", Loop_sequence(TheRecord, a),
                        Set("sequence", a, << >>), NoResult)
        \/ MethodCalled("bulges", Loop_sequence(TheRecord, a),
                        Set("sequence", a, << >>), NoResult)

EndSetter ==
    \E a \in SetterSequences :
        MethodCalled("ends", End_sequence(TheRecord, a), Set("sequence", a, << >>),
                     NoResult)

InternalLoopSetter ==
    \E a \in SetterSequences :
        \/ MethodCalled("internalLoops", InternalLoop_loop5p(TheRecord, a),
                        Set("loop5p", a, << >>), NoResult)
        \/ MethodCalled("internalLoops", InternalLoop_loop3p(TheRecord, a),
                        Set("loop3p", a, << >>), NoResult)
        \/ \E b \in SetterSequences :
               MethodCalled("internalLoops", InternalLoop_loops(TheRecord, a, b),
                            Set("loops", a, b), NoResult)

RecordNext ==
    \/ RecordEnergy
    \/ InternalLoopEnergy
    \/ InternalLoopCanonical
    \/ InternalLoopSubunit
    \/ StemSetter
    \/ LoopSetter
    \/ EndSetter
    \/ InternalLoopSetter

RecordSpec == RecordInit /\ [][RecordNext]_vars

-----------------------------------------------------------------------------
(* Properties of neighbour resolution and of the Component Array *)

\* the record accessor neighbors() of the four kinds features() lists; the
\* slots of an internal loop are compared as label slots
OwnNeighborsAre(kind, rec, v) ==
    CASE kind = "stems" -> <<rec.neighbor5p, rec.neighbor3p>> = v
      [] kind = "hairpins" -> rec.neighbors = v
      [] kind = "bulges" -> <<rec.neighbor5p, rec.neighbor3p>> = v
      [] kind = "internalLoops" ->
           /\ rec.neighbor5p = [labels |-> v[1]]
           /\ rec.neighbor3p = [labels |-> v[2]]

\* the entry at 0-indexed position p, EOM outside [0, length)
ArrayOrEOM(self, p) ==
    IF 0 <= p /\ p < Len(self.componentArray.a) THEN self.componentArray.a[p + 1]
    ELSE EOM

SingleSpanKinds == {"hairpins", "bulges", "externalLoops", "ends"}

\* C1: for every component with a single integer span (start, stop) whose
\* label is in the Component Array, neighbors(label) is
\* (array[start-2], array[stop]), and a position outside [0, length) -
\* position -1 included - resolves to EOM, never to a label or a failure.
C1_SingleSpanNeighbors ==
    (pc = "done" /\ ~new_structure.componentArray.none) =>
        \A label \in Elements(new_structure.componentArray.a) :
            LET c == component(new_structure, label)
                nb == neighbors(new_structure, label)
            IN  (c.found /\ c.kind \in SingleSpanKinds /\ Len(c.rec.span) = 2) =>
                    /\ nb.err = ""
                    /\ ~nb.none
                    /\ nb.v = <<ArrayOrEOM(new_structure, c.rec.span[1] - 2),
                                ArrayOrEOM(new_structure, c.rec.span[2])>>

\* a completed load in which the 5' side of a record that starts at
\* nucleotide 1 resolved to a label
C1_Witness ==
    /\ pc = "done" /\ fileNL
    /\ ~new_structure.componentArray.none
    /\ \E label \in Elements(new_structure.componentArray.a) :
           LET c == component(new_structure, label)
           IN  /\ c.found /\ c.kind \in SingleSpanKinds
               /\ Len(c.rec.span) = 2 /\ c.rec.span[1] = 1
               /\ neighbors(new_structure, label).v[1] # EOM

\* C2: after loading the file with #Length 10, sequence ACGUACGUAC, stem S1
\* on 1..3/8..10 and hairpin H1 on 4..7, neighbors(H1) is (S1, S1) and
\* neighbors(S1) is (EOM, EOM).
C2_StemHairpinNeighbors ==
    (pc = "done" /\ doc = StemHairpinDoc /\ fileNL) =>
        /\ new_structure.sequence = <<"A", "C", "G", "U", "A", "C", "G", "U", "A", "C">>
        /\ neighbors(new_structure, <<"H", "1">>).v = <<<<"S", "1">>, <<"S", "1">>>>
        /\ neighbors(new_structure, <<"S", "1">>).v = <<EOM, EOM>>

\* the scenario's file is loaded and the stem's neighbours are two pairs
C2_Witness ==
    /\ pc = "done" /\ doc = StemHairpinDoc /\ fileNL
    /\ neighbors(new_structure, <<"H", "1">>).v = <<<<"S", "1">>, <<"S", "1">>>>
    /\ neighbors(new_structure, <<"S", "1">>).v
           = <<<<<<"S", "1">>, EOM>>, <<<<"H", "1">>, <<"H", "1">>>>>>

\* nucleotide n lies in a span of the record line x
Covers(x, n) ==
    CASE x.k \in {"S", "I"} -> (x.a <= n /\ n <= x.b) \/ (x.c <= n /\ n <= x.d)
      [] x.k \in {"H", "B", "M", "X", "E"} -> x.a <= n /\ n <= x.b
      [] OTHER -> FALSE

\* the file is complete and the spans of its records partition 1..length
SpansPartition(d) ==
    /\ d.hdr = "full" /\ d.mand = 4
    /\ \A k \in 1..Len(d.body) : d.body[k].k # "raw"
    /\ \A n \in 1..d.length :
           Cardinality({k \in 1..Len(d.body) : Covers(d.body[k], n)}) = 1
    /\ \A k \in 1..Len(d.body) : \A n \in 0..(d.length + 3) :
           Covers(d.body[k], n) => n \in 1..d.length

\* the label that owns nucleotide n: the parent label for a multiloop subunit
Owner(d, n) == d.body[CHOOSE k \in 1..Len(d.body) : Covers(d.body[k], n)].owner

\* C3: after any load that completes on a file whose #Length is L and whose
\* record spans partition 1..L, the Component Array has length L, every index
\* holds the label of the record whose span contains that nucleotide (the
\* parent label for a multiloop subunit), and no NCBP label is in the array.
C3_ArrayMatchesPartition ==
    (pc = "done" /\ SpansPartition(doc)) =>
        /\ ~new_structure.componentArray.none
        /\ Len(new_structure.componentArray.a) = doc.length
        /\ \A n \in 1..doc.length :
               /\ new_structure.componentArray.a[n] = Owner(doc, n)
               /\ new_structure.componentArray.a[n]
                      \notin Elements(DictKeys(new_structure.ncbp))

\* a load that completed on a partition file and left an entry unfilled
C3_Witness ==
    /\ pc = "done" /\ SpansPartition(doc)
    /\ ~new_structure.componentArray.none
    /\ \E n \in 1..doc.length : new_structure.componentArray.a[n] = None

\* C4: when create() returns, the adjacency pass has run: for every label of
\* features(), the record's own neighbors() equals Structure.neighbors(label)
\* computed from the final Component Array.
C4_RecordsHoldNeighbors ==
    pc = "done" =>
        \A label \in Elements(features_of(new_structure)) :
            LET c == component(new_structure, label)
                nb == neighbors(new_structure, label)
            IN  /\ nb.err = ""
                /\ ~nb.none
                /\ OwnNeighborsAre(c.kind, c.rec, nb.v)

\* a returned Structure whose hairpin still holds its default neighbours
C4_Witness ==
    /\ pc = "done" /\ fileNL
    /\ \E k \in 1..Len(new_structure.hairpins) :
           LET hairpin == new_structure.hairpins[k].v
               nb == neighbors(new_structure, hairpin.label)
           IN  /\ ~nb.none
               /\ nb.v # hairpin.neighbors
               /\ hairpin.neighbors = << << >>, << >> >>

-----------------------------------------------------------------------------
(* Properties of the adjacent-bulge flags and of the loader's error handling *)

\* a bulge of the file starts right after, or ends right before, a strand of
\* one of its stems
FlankedByBulge(d) ==
    \E s \in 1..Len(d.body) : \E b \in 1..Len(d.body) :
        /\ d.body[s].k = "S"
        /\ d.body[b].k = "B"
        /\ \/ d.body[b].a \in {d.body[s].b + 1, d.body[s].d + 1}
           \/ d.body[b].b \in {d.body[s].a - 1, d.body[s].c - 1}

\* the array entry names a Bulge record whose length is exactly 1
IsShortBulge(self, entry) ==
    /\ entry # EOM
    /\ entry # None
    /\ entry[1] = "B"
    /\ DictHas(self.bulges, entry)
    /\ DictGet(self.bulges, entry).sequenceLen = 1

\* C5: for a file in which a stem is flanked by a bulge, create() returns a
\* Structure, and the flag of each end of each stem is True exactly when a
\* neighbor on that end is a Bulge record of length exactly 1.
C5_StemBulgeFlags ==
    (pc \in {"done", "failed"} /\ fileNL /\ SpansPartition(doc)
         /\ FlankedByBulge(doc)) =>
        /\ pc = "done"
        /\ \A k \in 1..Len(new_structure.stems) :
               LET stem == new_structure.stems[k].v
                   nb == neighbors(new_structure, stem.label)
               IN  /\ ~nb.none
                   /\ stem.adjacentBulges =
                          <<\E q \in 1..2 : IsShortBulge(new_structure, nb.v[1][q]),
                            \E q \in 1..2 : IsShortBulge(new_structure, nb.v[2][q])>>

\* every record of a file with a bulge next to a stem was loaded, and the
\* flag pass raised
C5_Witness ==
    /\ pc = "failed" /\ err = "AttributeError"
    /\ fileNL /\ SpansPartition(doc) /\ FlankedByBulge(doc)
    /\ i >= Len(features)
    /\ new_structure.bulges # << >>

\* the lines of the file that do not start with '#'
NonHeaderLines ==
    Cardinality({k \in 1..Len(fileLines) :
                     fileLines[k] = << >> \/ fileLines[k][1] # "#"})

\* C6: if the file has fewer than four non-header lines, create() fails the
\* load with the aggregate reset to its empty state by resetStructure().
C6_ShortFileResets ==
    (pc \in {"done", "failed"} /\ NonHeaderLines < 4) =>
        /\ pc = "failed"
        /\ new_structure = resetStructure(new_structure)

\* the load of a short file ended with the header still in the aggregate
C6_Witness ==
    /\ pc = "failed" /\ err = "UnboundLocalError"
    /\ NonHeaderLines < 4
    /\ new_structure.name # None
    /\ new_structure.sequence # None

RecordSigils == {"S", "H", "B", "I", "M", "X", "N", "E"}

\* the leading characters of the line select no record kind: a blank line,
\* an unlisted leading letter, 'S' alone or before a non-digit, 'N' that does
\* not start 'NCBP', 'I' that is not the first line of an internal loop
SelectsNoKind(line) ==
    \/ Len(line) = 0
    \/ line[1] \notin RecordSigils
    \/ line[1] = "S" /\ (Len(line) = 1 \/ ~isdigit(line[2]))
    \/ line[1] = "N" /\ Slice(line, 0, 4) # <<"N", "C", "B", "P">>
    \/ line[1] = "I" /\ ~re_search_internal_loop(line)

\* C7: every body line whose leading characters select no record kind is
\* skipped without error: no record map and no Component Array entry changes,
\* the cursor advances by one, and the load continues.
C7_NoKindLineSkipped ==
    [][(pc = "body" /\ i < Len(features) /\ SelectsNoKind(features[i + 1])) =>
           (pc' = "body" /\ i' = i + 1 /\ new_structure' = new_structure)]_vars

\* the load failed at a line that selects no record kind
C7_Witness ==
    /\ pc = "failed" /\ err = "IndexError"
    /\ i < Len(features)
    /\ SelectsNoKind(features[i + 1])

RecordBranches ==
    {"stem", "hairpin", "bulge", "internalLoop", "multiLoop", "externalLoop",
     "ncbp", "end"}

\* the number of space-separated fields of a line of each kind
FieldCount(b) ==
    CASE b \in {"stem", "hairpin", "internalLoop"} -> 5
      [] b \in {"bulge", "multiLoop", "externalLoop"} -> 7
      [] b = "ncbp" -> 6
      [] b = "end" -> 3

\* the token is two integers separated by '..'
TwoInts(token) ==
    LET parts == split(token, <<".", ".">>)
    IN  /\ Len(parts) = 2
        /\ int(parts[1]).err = ""
        /\ int(parts[2]).err = ""

\* a record line with a wrong field count, a span token that is not two
\* integers, or a malformed numeric field
Malformed(line) ==
    LET b == Branch(line)
        f == Fields(line)
    IN  /\ b \in RecordBranches
        /\ \/ Len(f) # FieldCount(b)
           \/ b # "ncbp" /\ ~TwoInts(f[2])
           \/ b = "stem" /\ ~TwoInts(f[4])
           \/ b = "ncbp" /\ (int(f[2]).err # "" \/ int(f[4]).err # "")

\* C8: if any body record has a malformed numeric field, too few or too many
\* fields for its kind, or a span token that is not exactly two integers,
\* create() fails the whole load: no load completes over such a line.
C8_MalformedLineFailsLoad ==
    pc = "done" => \A k \in 1..Len(features) : ~Malformed(features[k])

\* a load completed over a hairpin line with a sixth field, and the hairpin
\* is stored
C8_Witness ==
    /\ pc = "done" /\ fileNL
    /\ \E k \in 1..Len(features) :
           /\ features[k] = HairpinLine(SpanText(4, 7), SP \o <<"z">>)
           /\ Malformed(features[k])
    /\ DictHas(new_structure.hairpins, <<"H", "9">>)

\* an NCBP line on which nothing but whitespace follows the second base
EmptyLocation(line) ==
    /\ Slice(line, 0, 4) = <<"N", "C", "B", "P">>
    /\ LET f == split(rstrip(line, Whitespace), <<" ">>)
       IN  Len(f) = 5 /\ int(f[2]).err = "" /\ int(f[4]).err = ""

\* C9: an NCBP line whose location field is empty is accepted: it yields an
\* NCBP record with parentUnit() equal to None, stored under its label, and
\* the load continues.
C9_EmptyLocationAccepted ==
    [][(pc = "body" /\ i < Len(features) /\ EmptyLocation(features[i + 1])) =>
           LET label == Fields(features[i + 1])[1]
           IN  /\ pc' = "body"
               /\ i' = i + 1
               /\ DictHas(new_structure'.ncbp, label)
               /\ DictGet(new_structure'.ncbp, label).parentUnit = None]_vars

\* the load failed at an NCBP line that ends in whitespace after the second
\* base
C9_Witness ==
    /\ pc = "failed" /\ err = "IndexError"
    /\ i < Len(features)
    /\ EmptyLocation(features[i + 1])
    /\ features[i + 1][Len(features[i + 1])] = " "
    /\ new_structure.ncbp = << >>

\* C10: a run of k consecutive body lines sharing one multiloop parent label
\* produces exactly one Multiloop record stored under that label with
\* numSubunits() = k and k distinct subunit labels, and the cursor moves from
\* the first line of the run to the line just after the last in one step.
C10_RunIsOneRecord ==
    [][At_("multiLoop") =>
           LET parentLabel == get_loop_parent_label(features[i + 1])
               k == RunLength(features, i + 1, parentLabel)
           IN  /\ pc' = "body"
               /\ i' = i + k
               /\ DictHas(new_structure'.multiLoops, parentLabel)
               /\ DictGet(new_structure'.multiLoops, parentLabel).numSubunits = k
               /\ Cardinality(Elements(
                      DictGet(new_structure'.multiLoops, parentLabel).subunitLabels))
                      = k]_vars

\* a run of eleven lines followed by another record was grouped into a
\* Multiloop that counts ten subunits
C10_Witness ==
    /\ pc = "done" /\ fileNL
    /\ DictHas(new_structure.multiLoops, <<"M", "1">>)
    /\ Len(DictGet(new_structure.multiLoops, <<"M", "1">>).subunitLabels) = 11
    /\ DictGet(new_structure.multiLoops, <<"M", "1">>).numSubunits = 10

-----------------------------------------------------------------------------
(* Properties of the internal-loop pairing *)

\* the label is I<digits>.<half>
IsHalfLabel(label, half) ==
    /\ Len(label) >= 4
    /\ label[1] = "I"
    /\ SubSeq(label, Len(label) - 1, Len(label)) = <<".", half>>
    /\ \A k \in 2..(Len(label) - 2) : isdigit(label[k])

FirstField(line) == Head(Fields(line))

\* lines k and k+1 of the body are labelled I<n>.1 and I<n>.2
LoopPairAt(k) ==
    /\ 1 <= k /\ k + 1 <= Len(features)
    /\ IsHalfLabel(FirstField(features[k]), "1")
    /\ IsHalfLabel(FirstField(features[k + 1]), "2")
    /\ get_loop_parent_label(FirstField(features[k]))
           = get_loop_parent_label(FirstField(features[k + 1]))

\* the record's 5' half is read from line5p and its 3' half from line3p
HalvesFrom(rec, line5p, line3p) ==
    LET f1 == Fields(line5p)
        f2 == Fields(line3p)
        cp1 == split_closing_pair_base_string(f1[5])
        cp2 == split_closing_pair_base_string(f2[5])
    IN  /\ rec.span5p = split_feature_index_string(f1[2]).v
        /\ rec.loop5p = get_feature_sequence(f1[3])
        /\ rec.closingPairs[1] = <<cp1[1], cp1[2]>>
        /\ rec.span3p = split_feature_index_string(f2[2]).v
        /\ rec.loop3p = get_feature_sequence(f2[3])
        /\ rec.closingPairs[2] \in {<<cp2[1], cp2[2]>>, <<cp2[2], cp2[1]>>}

\* C11: for every loop number n, adjacent lines I<n>.1 and I<n>.2 yield one
\* InternalLoop record under I<n> whose 5' half comes from the .1 line and
\* whose 3' half comes from the .2 line; the .2 line never opens a pair of its
\* own and never consumes the line after it.
C11_LoopPairIsOneRecord ==
    [][(pc = "body" /\ i < Len(features)) =>
           /\ LoopPairAt(i + 1) =>
                  LET parentLabel == get_loop_parent_label(FirstField(features[i + 1]))
                  IN  /\ pc' = "body"
                      /\ i' = i + 1
                      /\ DictHas(new_structure'.internalLoops, parentLabel)
                      /\ HalvesFrom(DictGet(new_structure'.internalLoops, parentLabel),
                                    features[i + 1], features[i + 2])
           /\ LoopPairAt(i) =>
                  (pc' = "body" /\ i' = i + 1 /\ new_structure' = new_structure)]_vars

\* the .2 line of a pair was dispatched and the record under the pair's
\* parent label now takes its 5' half from the .2 line
C11_Witness ==
    /\ pc \in {"body", "done"} /\ fileNL
    /\ \E k \in 1..Len(features) :
           /\ LoopPairAt(k)
           /\ i > k
           /\ LET parentLabel == get_loop_parent_label(FirstField(features[k]))
              IN  /\ DictHas(new_structure.internalLoops, parentLabel)
                  /\ DictGet(new_structure.internalLoops, parentLabel).span5p
                         = split_feature_index_string(Fields(features[k + 1])[2]).v

-----------------------------------------------------------------------------
(* Properties of the aggregate's queries *)

\* a side is the EOM sentinel or the label of a record of the aggregate
ValidSide(self, entry) ==
    \/ entry = EOM
    \/ entry # None /\ entry # << >> /\ component(self, entry).found

\* C12: for all labels in features() of a completed load, neighbors(label)
\* returns two sides (two pairs of sides for stems and internal loops), each
\* the label of a record present in the aggregate or EOM, never empty or None.
C12_NeighborSidesValid ==
    pc = "done" =>
        \A label \in Elements(features_of(new_structure)) :
            LET c == component(new_structure, label)
                nb == neighbors(new_structure, label)
            IN  /\ nb.err = ""
                /\ ~nb.none
                /\ Len(nb.v) = 2
                /\ IF c.kind \in {"stems", "internalLoops"}
                   THEN \A p \in 1..2 : \A q \in 1..2 :
                            ValidSide(new_structure, nb.v[p][q])
                   ELSE \A p \in 1..2 : ValidSide(new_structure, nb.v[p])

\* a completed load in which a side of a hairpin is an unfilled entry
C12_Witness ==
    /\ pc = "done"
    /\ \E k \in 1..Len(new_structure.hairpins) :
           LET nb == neighbors(new_structure, new_structure.hairpins[k].k)
           IN  ~nb.none /\ (nb.v[1] = None \/ nb.v[2] = None)

-----------------------------------------------------------------------------
(* Properties of the aggregate's maps under its own methods *)

\* the calls made since the aggregate was last emptied
RECURSIVE SinceReset(_)
SinceReset(cs) ==
    IF cs = << >> THEN << >>
    ELSE IF cs[Len(cs)].op = "reset" THEN << >>
    ELSE Append(SinceReset(SubSeq(cs, 1, Len(cs) - 1)), cs[Len(cs)])

AddsOf(kind) == SelectSeq(SinceReset(calls), LAMBDA c : c.op = "add" /\ c.kind = kind)

\* the labels of a sequence of adds, each at the place of its first add
RECURSIVE FirstInsertions(_)
FirstInsertions(adds) ==
    IF adds = << >> THEN << >>
    ELSE LET before == FirstInsertions(SubSeq(adds, 1, Len(adds) - 1))
             label == adds[Len(adds)].label
         IN  IF \E n \in 1..Len(before) : before[n] = label THEN before
             ELSE Append(before, label)

\* the record most recently added under a label
LastWrite(adds, label) ==
    adds[CHOOSE n \in 1..Len(adds) :
             /\ adds[n].label = label
             /\ \A m \in (n + 1)..Len(adds) : adds[m].label # label].rec

MapIsHistory(self, kind, adds, order) ==
    /\ numRecords(self, kind) = Len(order)
    /\ DictKeys(DictOfKind(self, kind)) = order
    /\ \A n \in 1..Len(order) :
          records(self, kind, order[n])
              = [list |-> FALSE,
                 one |-> [none |-> FALSE, rec |-> LastWrite(adds, order[n])]]
    /\ records(self, kind, None)
          = [list |-> TRUE, all |-> [n \in 1..Len(order) |-> LastWrite(adds, order[n])]]

AddIsIdempotent(self, kind) ==
    \A a \in ApiAdds :
        a.kind = kind
            => addKind(addKind(self, kind, a.label, a.rec), kind, a.label, a.rec)
                   = addKind(self, kind, a.label, a.rec)

\* C13: after any sequence of add<Kind>(label, record) calls on one kind,
\* num<Kind>s() is the number of distinct labels added, <kind>s(label) is the
\* record most recently added under the label, <kind>s() lists the records in
\* the order their labels were first added, and adding the same (label,
\* record) a second time changes nothing.
C13_MapIsLastWritePerLabel ==
    pc = "api" =>
        \A kind \in Kinds :
            /\ MapIsHistory(new_structure, kind, AddsOf(kind),
                            FirstInsertions(AddsOf(kind)))
            /\ AddIsIdempotent(new_structure, kind)

\* three adds of stems: S1, then S2, then S1 again with another record
C13_Witness ==
    /\ pc = "api"
    /\ Len(AddsOf("stems")) = 3
    /\ FirstInsertions(AddsOf("stems")) = << <<"S", "1">>, <<"S", "2">> >>
    /\ AddsOf("stems")[3].label = <<"S", "1">>
    /\ AddsOf("stems")[3].rec # AddsOf("stems")[1].rec
    /\ numRecords(new_structure, "stems") = 2

LabelsAdded(kind) == FirstInsertions(AddsOf(kind))

\* C14: features() is the stem labels, then the bulge labels, then the hairpin
\* labels, then the internal-loop labels, each group in the order its labels
\* were first added; no multiloop, external-loop, end or NCBP label is in it.
C14_FeaturesAreFourKinds ==
    pc = "api" =>
        /\ features_of(new_structure)
              = LabelsAdded("stems") \o LabelsAdded("bulges")
                  \o LabelsAdded("hairpins") \o LabelsAdded("internalLoops")
        /\ \A kind \in {"multiLoops", "externalLoops", "ends", "ncbp"} :
              Elements(LabelsAdded(kind)) \cap Elements(features_of(new_structure)) = {}

\* a hairpin, a multiloop and a bulge added in that order
C14_Witness ==
    /\ pc = "api"
    /\ Len(calls) = 3
    /\ <<calls[1].op, calls[1].kind>> = <<"add", "hairpins">>
    /\ <<calls[2].op, calls[2].kind>> = <<"add", "multiLoops">>
    /\ <<calls[3].op, calls[3].kind>> = <<"add", "bulges">>
    /\ features_of(new_structure) = << <<"B", "1">>, <<"H", "1">> >>

\* the map each leading character stands for
Sigils == {"S", "H", "B", "X", "E", "N", "I", "M"}

MapOfSigil(c) ==
    CASE c = "S" -> "stems"
      [] c = "H" -> "hairpins"
      [] c = "B" -> "bulges"
      [] c = "X" -> "externalLoops"
      [] c = "E" -> "ends"
      [] c = "N" -> "ncbp"
      [] c = "I" -> "internalLoops"
      [] c = "M" -> "multiLoops"

\* what a typed lookup of the label gives after the adds made so far
TypedLookup(label) ==
    IF label[1] \in Sigils /\ label \in Elements(LabelsAdded(MapOfSigil(label[1])))
    THEN [found |-> TRUE, rec |-> LastWrite(AddsOf(MapOfSigil(label[1])), label)]
    ELSE [found |-> FALSE, rec |-> NoRecord]

\* C15: component(label) returns what the typed lookup chosen by the label's
\* leading character (S, H, B, X, E, N, I, M) returns; a label with any other
\* leading character, or one absent from its map, gives None and no failure;
\* the call leaves the maps and the Component Array as they were.
C15_ComponentIsTypedLookup ==
    [][(pc = "api" /\ result'.op = "component" /\ result' # result)
         => /\ result'.value.found = TypedLookup(result'.label).found
            /\ result'.value.rec = TypedLookup(result'.label).rec
            /\ new_structure' = new_structure]_vars

\* an end found under its label while an external loop is in its own map
C15_Witness ==
    /\ pc = "api"
    /\ result.op = "component"
    /\ Len(AddsOf("ends")) > 0
    /\ Len(AddsOf("externalLoops")) > 0
    /\ result.label = <<"E", "1">>
    /\ result.value.found
    /\ result.value.rec = LastWrite(AddsOf("ends"), <<"E", "1">>)

AllMaps(self) ==
    {self.stems, self.hairpins, self.bulges, self.internalLoops,
     self.multiLoops, self.externalLoops, self.pk, self.ncbp, self.ends}

\* C16: right after resetStructure(), whatever header fields were assigned
\* and whatever records were added before it, all nine maps are empty, the
\* name, length, page number, sequence, dot-bracket string, structure-array
\* string and varna string are None, and componentArray() is None.
C16_ResetEmptiesAggregate ==
    (pc = "api" /\ calls # << >> /\ calls[Len(calls)].op = "reset")
        => /\ AllMaps(new_structure) = {<< >>}
           /\ new_structure.name = None
           /\ new_structure.length.none
           /\ new_structure.pageNum.none
           /\ new_structure.sequence = None
           /\ new_structure.DBN = None
           /\ new_structure.structureArray = None
           /\ new_structure.varna = None
           /\ new_structure.componentArray.none

\* a reset after the length (and with it the array) was assigned and a
\* record was added
C16_Witness ==
    /\ pc = "api"
    /\ Len(calls) = 3
    /\ <<calls[1].op, calls[1].kind>> = <<"assign", "length">>
    /\ calls[2].op = "add"
    /\ calls[3].op = "reset"
    /\ new_structure.componentArray.none

-----------------------------------------------------------------------------
(* Properties of the energy functions *)

\* the record an energy call was made on, once it has returned
EnergyOf(kind) == pc = "call" /\ result.op = "energy" /\ calls[1].kind = kind

Undefined(value) == value.err = "" /\ value.none

\* C17: Stem.energy(strict, init) yields the undefined-energy outcome, no
\* value, for every stem of length 0 or 1, whatever strict and init are.
C17_ShortStemHasNoEnergy ==
    (EnergyOf("stems") /\ calls[1].rec.sequenceLen <= 1)
        => Undefined(result.value)

\* a stem of one base pair asked for its energy
C17_Witness ==
    /\ EnergyOf("stems")
    /\ calls[1].rec.sequenceLen = 1
    /\ Len(calls[1].rec.sequence) = 1
    /\ Undefined(result.value)

Tabulated(self) ==
    DictGet(DictGet(params.SpecialHairpins, self.closingPair), self.sequence)

\* C18: Hairpin.energy(strict) yields no value for every hairpin of fewer
\* than three nucleotides, in both modes, also when the special-hairpin table
\* holds its (closing pair, sequence); for three nucleotides or more a match
\* in that table returns the tabulated value, whatever the other terms of the
\* energy would have been.
C18_HairpinLengthThenTable ==
    EnergyOf("hairpins") =>
        /\ calls[1].rec.sequenceLen < 3 => Undefined(result.value)
        /\ (calls[1].rec.sequenceLen >= 3 /\ InSpecialHairpins(calls[1].rec))
              => result.value = Value(Tabulated(calls[1].rec))

\* a two-nucleotide hairpin the table holds, asked in lenient mode
C18_Witness ==
    /\ EnergyOf("hairpins")
    /\ calls[1].rec.sequenceLen = 2
    /\ InSpecialHairpins(calls[1].rec)
    /\ ~result.strict
    /\ Undefined(result.value)

\* what a lenient call on a one-nucleotide bulge returns when the stacking
\* term is zero: the initiation of length 1, and for a bulged C next to a C
\* of a closing pair the special-C bonus less R*T*ln(number of such C's)
ZeroStackBulge(self) ==
    DictGet(params.BulgeInit, 1)
        + (IF self.sequence = <<"C">>
                 /\ "C" \in {self.closingPair5p[1], self.closingPair3p[1]}
           THEN SPECIAL_C_BULGE
                    - (IF self.closingPair5p[1] = "C" /\ self.closingPair3p[1] = "C"
                       THEN 6771 ELSE 4272)
           ELSE 0)

StackingKeyAbsent(self) ==
    ~(/\ DictHas(params.StackingEnergies, self.closingPair5p)
      /\ DictHas(DictGet(params.StackingEnergies, self.closingPair5p),
                 self.closingPair3p))

\* C19: for a bulge of one nucleotide whose (5' closing pair, 3' closing pair)
\* is not in the stacking table, Bulge.energy(strict=True) yields no value and
\* Bulge.energy(strict=False) returns the energy with a stacking term of zero;
\* a bulge of more than one nucleotide gets a value in both modes.
C19_BulgeStrictLenient ==
    EnergyOf("bulges") =>
        /\ (calls[1].rec.sequenceLen = 1 /\ StackingKeyAbsent(calls[1].rec))
              => IF result.strict THEN Undefined(result.value)
                 ELSE result.value = Value(ZeroStackBulge(calls[1].rec))
        /\ calls[1].rec.sequenceLen > 1
              => (result.value.err = "" /\ ~result.value.none)

\* a bulged C between a C-led pair and a pair the table lacks, asked in
\* lenient mode
C19_Witness ==
    /\ EnergyOf("bulges")
    /\ calls[1].rec.sequence = <<"C">>
    /\ calls[1].rec.closingPair5p = CG
    /\ StackingKeyAbsent(calls[1].rec)
    /\ ~result.strict
    /\ result.value = Value(24728)

\* C20: get_feature_sequence(token) returns the alphabetic characters of the
\* token, in order and in their case; for the token "aAc-GuU" the result is
\* "AcGuU".
C20_FeatureSequenceOfExample ==
    (pc = "call" /\ result.op = "get_feature_sequence")
        => /\ result.value = SelectSeq(calls[1].label, LAMBDA c : c \in Letters)
           /\ calls[1].label = <<"a", "A", "c", "-", "G", "u", "U">>
                 => result.value = <<"A", "c", "G", "u", "U">>

\* C20 as amended: for the token "aAc-GuU" the result is "aAcGuU", the
\* leading lower-case letter kept like every other letter.
C20_FeatureSequenceKeepsLetters ==
    (pc = "call" /\ result.op = "get_feature_sequence")
        => /\ result.value = SelectSeq(calls[1].label, LAMBDA c : c \in Letters)
           /\ calls[1].label = <<"a", "A", "c", "-", "G", "u", "U">>
                 => result.value = <<"a", "A", "c", "G", "u", "U">>

\* the quoted token has been given to get_feature_sequence
C20_Witness ==
    /\ pc = "call"
    /\ result.op = "get_feature_sequence"
    /\ calls[1].label = <<"a", "A", "c", "-", "G", "u", "U">>
    /\ Len(result.value) = 6

-----------------------------------------------------------------------------
(* Properties of the token splitters *)

\* C21: the splitters invert their token formats: for non-negative integers
\* a and b, "a..b" splits into (a, b) and "(a,b)" splits into (a, b), in that
\* order also when a > b; for bases x and y, "x:y" splits into (x, y).
C21_SplittersInvertFormats ==
    (pc = "call" /\ result.op = "split")
        => /\ result.value.err = ""
           /\ result.value.v = IF calls[1].kind = "x:y"
                                THEN << <<calls[1].rec.x>>, <<calls[1].rec.y>> >>
                                ELSE <<calls[1].rec.a, calls[1].rec.b>>

\* "(12,3)", its indices descending and of different widths, has been split
C21_Witness ==
    /\ pc = "call"
    /\ result.op = "split"
    /\ calls[1].kind = "(a,b)"
    /\ calls[1].label = <<"(", "1", "2", ",", "3", ")">>
    /\ result.value.v = <<12, 3>>

-----------------------------------------------------------------------------
(* Properties of a record driven through its methods *)

\* the method calls made so far are all energy calls
OnlyEnergyCalls == \A k \in 2..Len(calls) : calls[k].op = "energy"

\* the method calls before the last one are all energy calls
EnergyCallsBefore == \A k \in 2..(Len(calls) - 1) : calls[k].op = "energy"

\* C22: energy(strict) has no side effect: after any sequence of energy
\* calls the aggregate holds the record exactly as it was built, and
\* canonical() of an internal loop returns what it returns on the loop as
\* built, whatever energy(strict=True) and energy(strict=False) calls
\* preceded it.
C22_EnergyHasNoSideEffect ==
    pc = "record"
        => /\ OnlyEnergyCalls
               => new_structure = addKind(Structure, calls[1].kind, calls[1].label,
                                          calls[1].rec)
           /\ (result.op = "canonical" /\ EnergyCallsBefore)
               => result.value = InternalLoop_canonical(calls[1].rec)

\* canonical() has been asked of a 3x3 loop, whose mismatch table lacks one
\* of its keys, right after energy(strict=False)
C22_Witness ==
    /\ pc = "record"
    /\ Len(calls) = 3
    /\ calls[1].kind = "internalLoops"
    /\ calls[1].rec.loop5p = <<"A", "A", "A">>
    /\ calls[1].rec.loop3p = <<"A", "A", "G">>
    /\ calls[2].op = "energy" /\ calls[2].label = FALSE
    /\ result.op = "canonical"


\* C23: whatever sequence setters have been called on a record, accepted or
\* rejected, its reported length (sequenceLen(), length(), loopsLen()) is the
\* length of its current sequence(s); a stem built with arms of equal length
\* keeps arms of equal length, and sequence() has sequenceLen() pairs.
C23_LengthFollowsSequence ==
    pc = "record"
        => CASE calls[1].kind = "internalLoops" ->
                  TheRecord.loopsLen
                      = <<Len(TheRecord.loop5p), Len(TheRecord.loop3p)>>
             [] calls[1].kind = "stems" ->
                  Len(calls[1].rec.sequence5p) = Len(calls[1].rec.sequence3p)
                      => /\ Len(TheRecord.sequence5p) = Len(TheRecord.sequence3p)
                         /\ TheRecord.sequenceLen = Len(TheRecord.sequence5p)
                         /\ Len(TheRecord.sequence) = TheRecord.sequenceLen
             [] OTHER -> TheRecord.sequenceLen = Len(TheRecord.sequence)

\* sequence("GAG") has been called on an end built with one base
C23_Witness ==
    /\ pc = "record"
    /\ calls[1].kind = "ends"
    /\ Len(calls[1].rec.sequence) = 1
    /\ Len(calls) = 2
    /\ calls[2].op = "sequence"
    /\ calls[2].label = <<"G", "A", "G">>
    /\ TheRecord.sequence = <<"G", "A", "G">>


\* the loop is 1x1, 1x2, 2x1 or 2x2
ExactShape(self) == Len(self.loop5p) \in 1..2 /\ Len(self.loop3p) \in 1..2

Tabulated_InnerLoop(self) == DictHas(ExactMatch(self).table, ExactMatch(self).key)

\* initiation + asymmetry penalty + AU/GU closing penalty + mismatch term,
\* a mismatch entry the table lacks counting zero
GeneralFormula(self) ==
    _getInnerLoopInitEnergy(self) + _getInnerLoopAsymmetryEnergy(self)
        + _getInnerLoopClosingPenalty(self)
        + _getInnerLoopMismtachEnergy([self EXCEPT !.strict = FALSE]).v

\* C24: for a 1x1, 1x2, 2x1 or 2x2 internal loop, energy() returns the
\* tabulated value in both modes when the exact-match table holds the loop's
\* key; when it does not, energy(strict=True) yields no value and
\* energy(strict=False) returns the general formula, a missing mismatch entry
\* contributing zero.
C24_ExactMatchThenFormula ==
    (pc = "record" /\ calls[1].kind = "internalLoops" /\ result.op = "energy"
         /\ ExactShape(TheRecord))
        => IF Tabulated_InnerLoop(TheRecord)
           THEN result.value
                    = Value(DictGet(ExactMatch(TheRecord).table,
                                    ExactMatch(TheRecord).key))
           ELSE IF result.strict THEN result.value = NoValue
           ELSE result.value = Value(GeneralFormula(TheRecord))

\* energy(strict=False) has returned the formula's value, 11000 + 7000 - 8000
\* with the mismatch entry (A, A) missing, for the 2x2 loop AA/AG closed by AU
\* and CG, which the 2x2 table lacks
C24_Witness ==
    /\ pc = "record"
    /\ calls[1].kind = "internalLoops"
    /\ result.op = "energy"
    /\ ~result.strict
    /\ TheRecord.loop5p = <<"A", "A">>
    /\ TheRecord.loop3p = <<"A", "G">>
    /\ TheRecord.closingPairs = <<AU, CG>>
    /\ result.value = Value(10000)


-----------------------------------------------------------------------------
(* Properties of the hairpin initiation term *)

\* C25: for a hairpin of three nucleotides or more that the special-hairpin
\* table lacks and whose length has no tabulated initiation value,
\* Hairpin.energy() extrapolates the initiation term from init(9) and returns
\* a defined energy, in lenient mode whatever the terminal mismatch; the
\* untabulated length never makes the call fail.
C25_UntabulatedLengthExtrapolated ==
    (EnergyOf("hairpins") /\ calls[1].rec.sequenceLen >= 3
         /\ ~InSpecialHairpins(calls[1].rec)
         /\ ~DictHas(params.HairpinInit, calls[1].rec.sequenceLen)
         /\ ~result.strict)
        => result.value.err = "" /\ ~result.value.none

\* a hairpin of ten nucleotides, one past the initiation table, asked for its
\* energy in lenient mode
C25_Witness ==
    /\ EnergyOf("hairpins")
    /\ calls[1].rec.sequenceLen = 10
    /\ ~InSpecialHairpins(calls[1].rec)
    /\ ~result.strict
    /\ result.value.err = "NameError"


-----------------------------------------------------------------------------
(* Properties of the bulge line's trailing closing pair *)

\* the trailing pair's 5' index is farther from the bulge's stop than its 3'
FartherFirst(in) == abs(in.stop - in.t5) > abs(in.stop - in.t3)

\* C26: the trailing closing pair of a bulge line is reoriented as a unit:
\* when its 5' index is farther from the bulge's stop than its 3' index the
\* bases and the indices are both swapped, otherwise both are kept, so that
\* closingPair3pSpan() is a pair of the two input indices ordered like the
\* bases, the nearer first.
C26_TrailingPairReorientedAsUnit ==
    (pc = "call" /\ result.op = "bulge_line")
        => /\ result.value.err = ""
           /\ result.value.rec.closingPair3p
                  = IF FartherFirst(calls[1].rec)
                    THEN << <<calls[1].rec.y>>, <<calls[1].rec.x>> >>
                    ELSE << <<calls[1].rec.x>>, <<calls[1].rec.y>> >>
           /\ ToString(result.value.rec.closingPair3pSpan)
                  = ToString(IF FartherFirst(calls[1].rec)
                             THEN <<calls[1].rec.t3, calls[1].rec.t5>>
                             ELSE <<calls[1].rec.t5, calls[1].rec.t3>>)

\* the line of a bulge that stops at 8 with the trailing pair "(3,9) C:G" has
\* been parsed: the bases are stored as (G, C)
C26_Witness ==
    /\ pc = "call"
    /\ result.op = "bulge_line"
    /\ calls[1].rec = [stop |-> 8, t5 |-> 3, t3 |-> 9, x |-> "C", y |-> "G"]
    /\ result.value.rec.closingPair3p = << <<"G">>, <<"C">> >>


-----------------------------------------------------------------------------
(* Properties of the body pass: the end of the line list *)

\* C27: when the run of a multiloop extends to the last line of the body, the
\* probe for further lines of the same parent stops at the end of the list
\* without reading past it: the step ends with the Multiloop stored under
\* the parent label, the cursor at the end of the list and no exception, so
\* that create() goes on to return the Structure.
C27_RunAtEndOfBody ==
    [][(At_("multiLoop")
            /\ i + RunLength(features, i + 1, get_loop_parent_label(features[i + 1]))
                   = Len(features))
           => /\ pc' = "body"
              /\ err' = ""
              /\ i' = Len(features)
              /\ DictHas(new_structure'.multiLoops,
                         get_loop_parent_label(features[i + 1]))]_vars

\* the load of a newline-terminated file whose body is one run of three
\* multiloop lines has ended in the probe
C27_Witness ==
    /\ pc = "failed"
    /\ err = "IndexError"
    /\ fileNL
    /\ doc = RunDoc(3, FALSE)
    /\ i = Len(features)
    /\ new_structure.multiLoops = << >>

\* C28: every record line of the body is dispatched by the loader, the last
\* line of the file included, whether or not the file ends with a newline:
\* the list the body pass walks is the list of the body's lines, and a load
\* that completes has walked all of it.
C28_EveryBodyLineDispatched ==
    /\ pc \in {"body", "done"} => features = RenderBody(doc.body)
    /\ pc = "done" => i >= Len(features)

\* a load completed on a file that does not end with a newline, its last
\* record line never in the list
C28_Witness ==
    /\ pc = "done"
    /\ ~fileNL
    /\ doc.body # << >>
    /\ features = SubSeq(RenderBody(doc.body), 1, Len(RenderBody(doc.body)) - 1)


-----------------------------------------------------------------------------
(* Properties of the internal-loop subunit query and of mirrored loops *)

\* C29: for the internal loop stored under parent label P,
\* getInternalLoopSubunit(P, '1') returns the label P.1 with the sequence and
\* the span of the 5' half, getInternalLoopSubunit(P, '2') returns the label
\* P.2 with the sequence and the span of the 3' half, and any other subunit
\* label returns None.
C29_SubunitOfEachHalf ==
    (pc = "record" /\ result.op = "subunit")
        => CASE calls[Len(calls)].label = <<"1">> ->
                  /\ result.value.err = "" /\ ~result.value.none
                  /\ result.value.v
                         = [label |-> TheRecord.parentLabel \o <<".", "1">>,
                            Sequence |-> TheRecord.loop5p,
                            span |-> TheRecord.span5p]
             [] calls[Len(calls)].label = <<"2">> ->
                  /\ result.value.err = "" /\ ~result.value.none
                  /\ result.value.v
                         = [label |-> TheRecord.parentLabel \o <<".", "2">>,
                            Sequence |-> TheRecord.loop3p,
                            span |-> TheRecord.span3p]
             [] OTHER -> result.value = NoValue

\* the aggregate has been asked for subunit '1' of the stored loop I1
C29_Witness ==
    /\ pc = "record"
    /\ result.op = "subunit"
    /\ calls[Len(calls)].label = <<"1">>
    /\ DictHas(new_structure.internalLoops, <<"I", "1">>)
    /\ result.value.err = "AttributeError"


\* the loop mirrored: the halves change places with their spans, and the
\* closing pairs (cp0, cp1) become (reverse(cp1), reverse(cp0))
Mirror(self) ==
    [self EXCEPT !.loop5p = self.loop3p, !.loop3p = self.loop5p,
                 !.loopsLen = <<self.loopsLen[2], self.loopsLen[1]>>,
                 !.span5p = self.span3p, !.span3p = self.span5p,
                 !.closingPairs = <<Reversed(self.closingPairs[2]),
                                    Reversed(self.closingPairs[1])>>,
                 !.closingPairsSpan = <<Reversed(self.closingPairsSpan[2]),
                                        Reversed(self.closingPairsSpan[1])>>]

\* the shapes whose energy reads a table through a key relabelled for the
\* other orientation: 1x2 and 2x1, 2x3 and 3x2
MirroredShape(self) ==
    <<Len(self.loop5p), Len(self.loop3p)>> \in {<<1, 2>>, <<2, 1>>, <<2, 3>>, <<3, 2>>}

\* C30: the energy of an internal loop is the energy of its mirror image:
\* the 2x1 path reads the 1x2 table under the key of the mirrored loop, and
\* the 3x2 mismatch routine looks up the two keys the 2x3 routine looks up
\* on the mirrored loop, so a loop and its mirror image get the same energy
\* whatever the tables hold.
C30_EnergyOfMirrorImage ==
    (pc = "record" /\ calls[1].kind = "internalLoops" /\ result.op = "energy"
         /\ MirroredShape(TheRecord))
        => result.value = InternalLoop_energy(Mirror(TheRecord), result.strict)

\* energy(strict=True) has returned no value for the 3x2 loop AAA/GG closed
\* by CG and CG, whose second key is (GC, (A, G)), which the table lacks; the
\* 2x3 routine looks up (CG, (A, G)) on the mirror image and returns 9000
C30_Witness ==
    /\ pc = "record"
    /\ calls[1].kind = "internalLoops"
    /\ result.op = "energy"
    /\ result.strict
    /\ TheRecord.loop5p = <<"A", "A", "A">>
    /\ TheRecord.loop3p = <<"G", "G">>
    /\ TheRecord.closingPairs = <<CG, CG>>
    /\ result.value = NoValue
    /\ InternalLoop_energy(Mirror(TheRecord), TRUE) = Value(9000)

=============================================================================
